---- MODULE Spec2Model ----
(***************************************************************************)
(* A model of gamepad_map.c, the THEC64 gamepad mapping wizard: the        *)
(* controller registry, the per-handle event queues of the kernel, the     *)
(* wizard session (App) and one action per update_* handler of the main    *)
(* loop.  Text (GUIDs, names, the mapping line, file paths) is a sequence  *)
(* of one-character strings, built the way the snprintf calls build it.    *)
(***************************************************************************)
EXTENDS Integers, Sequences, FiniteSets, TLC

(***************************************************************************)
(* Constants of the program and of <linux/input.h>                         *)
(***************************************************************************)
NUM_MAPPINGS == 10
MAX_CONTROLLERS == 8
RESCAN_MS == 2000

EV_KEY == 1
EV_ABS == 3
KEY_MAX == 767
ABS_MAX == 63
BTN_MISC == 256
BTN_JOYSTICK == 288
BTN_GAMEPAD == 304
BTN_TRIGGER == 288
BTN_TOP2 == 292
BTN_PINKIE == 293
BTN_BASE2 == 295
ABS_X == 0
ABS_Y == 1
ABS_HAT0X == 16
ABS_HAT3Y == 23

KEY_ESC == 1
KEY_1 == 2
KEY_2 == 3
KEY_3 == 4
KEY_4 == 5
KEY_BACKSPACE == 14
KEY_Q == 16
KEY_ENTER == 28
KEY_SPACE == 57
KEY_UP == 103
KEY_LEFT == 105
KEY_RIGHT == 106
KEY_DOWN == 108

MAP_NONE == 0
MAP_BUTTON == 1
MAP_AXIS == 2
MAP_HAT == 3

STATE_DETECT == "DETECT"
STATE_MAPPING == "MAPPING"
STATE_REVIEW == "REVIEW"
STATE_BROWSE == "BROWSE"
STATE_DONE == "DONE"
STATE_EXIT == "EXIT"
AppState == {STATE_DETECT, STATE_MAPPING, STATE_REVIEW, STATE_BROWSE, STATE_DONE, STATE_EXIT}

REVIEW_ACTION_SAVE == NUM_MAPPINGS
REVIEW_ACTION_RESTART == NUM_MAPPINGS + 1
REVIEW_ACTION_ANOTHER == NUM_MAPPINGS + 2
REVIEW_ACTION_QUIT == NUM_MAPPINGS + 3
REVIEW_TOTAL_ITEMS == NUM_MAPPINGS + 4

(***************************************************************************)
(* Bounds of the model                                                     *)
(***************************************************************************)
\* unread events the kernel holds for one open handle
MaxQueue == 2
\* the inputs of one run beside the presses of the prompted button: presses of
\* other buttons, hat and stick movements of the gamepad, inputs on THEJOYSTICK,
\* key presses, a termination signal
MaxExtra == 1
\* the step of the clock in ms
TickMs == 1000

(***************************************************************************)
(* C arithmetic and text                                                   *)
(***************************************************************************)
\* integer division of C: truncation toward zero
CDiv(a, b) ==
  IF (a >= 0) = (b > 0) \/ a = 0 THEN (IF a >= 0 THEN a ELSE -a) \div (IF b >= 0 THEN b ELSE -b)
  ELSE -((IF a >= 0 THEN a ELSE -a) \div (IF b >= 0 THEN b ELSE -b))

\* remainder of C: the sign of the dividend
CMod(a, b) == a - b * CDiv(a, b)

hex == <<"0","1","2","3","4","5","6","7","8","9","a","b","c","d","e","f">>

RECURSIVE DecDigits(_)
DecDigits(n) == IF n < 10 THEN <<hex[n + 1]>> ELSE DecDigits(n \div 10) \o <<hex[(n % 10) + 1]>>

\* printf's %d
FmtD(n) == IF n < 0 THEN <<"-">> \o DecDigits(-n) ELSE DecDigits(n)

\* printf's %.<n>s
FmtPrec(s, n) == IF Len(s) <= n THEN s ELSE SubSeq(s, 1, n)

\* strstr(hay, needle) != NULL
StrContains(hay, needle) ==
  \E i \in 1..(Len(hay) - Len(needle) + 1) : SubSeq(hay, i, i + Len(needle) - 1) = needle

\* strrchr(s, ch): the position of the last ch in s, 0 when there is none
StrRChr(s, ch) ==
  IF \E i \in 1..Len(s) : s[i] = ch
  THEN CHOOSE i \in 1..Len(s) : s[i] = ch /\ \A j \in (i + 1)..Len(s) : s[j] # ch
  ELSE 0

(***************************************************************************)
(* GUID construction                                                       *)
(***************************************************************************)
\* build_guid writing each 16-bit field high byte first
build_guid_be(id) ==
  LET guid == <<(id.bustype \div 256) % 256, id.bustype % 256, 0, 0,
                (id.vendor \div 256) % 256, id.vendor % 256, 0, 0,
                (id.product \div 256) % 256, id.product % 256, 0, 0,
                (id.version \div 256) % 256, id.version % 256, 0, 0>>
  IN [k \in 1..32 |->
        IF k % 2 = 1 THEN hex[(guid[(k + 1) \div 2] \div 16) + 1]
        ELSE hex[(guid[k \div 2] % 16) + 1]]

build_guid(id) ==
  LET guid == <<id.bustype % 256, (id.bustype \div 256) % 256, 0, 0,
                id.vendor % 256, (id.vendor \div 256) % 256, 0, 0,
                id.product % 256, (id.product \div 256) % 256, 0, 0,
                id.version % 256, (id.version \div 256) % 256, 0, 0>>
  IN [k \in 1..32 |->
        IF k % 2 = 1 THEN hex[(guid[(k + 1) \div 2] \div 16) + 1]
        ELSE hex[(guid[k \div 2] % 16) + 1]]

(***************************************************************************)
(* The device namespace: what each device node answers to the capability,  *)
(* identification, name and axis-range queries                             *)
(***************************************************************************)
PadName == <<"P","a","d">>
JoyName == <<"T","H","E","C","6","4"," ","J","o","y","s","t","i","c","k">>

PadDevice ==
  [name |-> PadName,
   id |-> [bustype |-> 3, vendor |-> 1118, product |-> 654, version |-> 276],
   evbits |-> {EV_KEY, EV_ABS},
   keybits |-> {BTN_MISC} \cup (BTN_GAMEPAD..(BTN_GAMEPAD + 8)),
   absbits |-> {ABS_X, ABS_Y, ABS_HAT0X, ABS_HAT0X + 1},
   absmin |-> [c \in 0..(ABS_MAX - 1) |-> IF c >= ABS_HAT0X THEN -1 ELSE -32768],
   absmax |-> [c \in 0..(ABS_MAX - 1) |-> IF c >= ABS_HAT0X THEN 1 ELSE 32767]]

JoyDevice ==
  [name |-> JoyName,
   id |-> [bustype |-> 3, vendor |-> 7257, product |-> 35, version |-> 272],
   evbits |-> {EV_KEY, EV_ABS},
   keybits |-> BTN_JOYSTICK..(BTN_JOYSTICK + 7),
   absbits |-> {ABS_X, ABS_Y},
   absmin |-> [c \in 0..(ABS_MAX - 1) |-> 0],
   absmax |-> [c \in 0..(ABS_MAX - 1) |-> 255]]

\* the gamepad nodes of /dev/input, in readdir order
DeviceNodes == <<PadDevice, JoyDevice>>
NumDevices == Len(DeviceNodes)

(***************************************************************************)
(* Capability enumeration                                                  *)
(***************************************************************************)
\* the button scan order: BTN_JOYSTICK..KEY_MAX-1, then BTN_MISC..BTN_JOYSTICK-1
\* ButtonScanPos for a single scan over BTN_MISC..KEY_MAX-1 in ascending code order
ButtonScanPos_ascending(code) ==
  IF code >= BTN_JOYSTICK THEN code - BTN_MISC
  ELSE code - BTN_MISC

ButtonScanPos(code) ==
  IF code >= BTN_JOYSTICK THEN code - BTN_JOYSTICK
  ELSE (KEY_MAX - BTN_JOYSTICK) + (code - BTN_MISC)

\* c->btn_map[i] = c->num_buttons++ over the two scan loops
BtnMapOf(keybits) ==
  [i \in 0..(KEY_MAX - 1) |->
     IF i \in keybits /\ i >= BTN_MISC
     THEN Cardinality({j \in keybits : j >= BTN_MISC /\ j < KEY_MAX
                                       /\ ButtonScanPos(j) < ButtonScanPos(i)})
     ELSE -1]

\* c->abs_map[i] = c->num_axes++, skipping the hat range
AbsMapOf(absbits) ==
  [i \in 0..(ABS_MAX - 1) |->
     IF i \in absbits /\ ~(i >= ABS_HAT0X /\ i <= ABS_HAT3Y)
     THEN Cardinality({j \in absbits : j < i /\ ~(j >= ABS_HAT0X /\ j <= ABS_HAT3Y)})
     ELSE -1]

\* c->hat_map[i] = (i - ABS_HAT0X) / 2
HatMapOf(absbits) ==
  [i \in 0..(ABS_MAX - 1) |->
     IF i \in absbits /\ i >= ABS_HAT0X /\ i <= ABS_HAT3Y
     THEN CDiv(i - ABS_HAT0X, 2)
     ELSE -1]

\* c->num_hats: one more than the highest hat index assigned
NumHatsOf(absbits) ==
  LET used == {HatMapOf(absbits)[i] : i \in 0..(ABS_MAX - 1)} \ {-1}
  IN IF used = {} THEN 0 ELSE (CHOOSE h \in used : \A g \in used : g <= h) + 1

enumerate_buttons_axes(dev) ==
  [btn_map |-> BtnMapOf(dev.keybits),
   abs_map |-> AbsMapOf(dev.absbits),
   hat_map |-> HatMapOf(dev.absbits),
   num_buttons |-> Cardinality({j \in dev.keybits : j >= BTN_MISC /\ j < KEY_MAX}),
   num_axes |-> Cardinality({j \in dev.absbits : j < ABS_MAX /\ ~(j >= ABS_HAT0X /\ j <= ABS_HAT3Y)}),
   num_hats |-> NumHatsOf(dev.absbits),
   axis_min |-> [i \in 0..(ABS_MAX - 1) |-> IF i \in dev.absbits THEN dev.absmin[i] ELSE 0],
   axis_max |-> [i \in 0..(ABS_MAX - 1) |-> IF i \in dev.absbits THEN dev.absmax[i] ELSE 0],
   axis_initial |-> [i \in 0..(ABS_MAX - 1) |->
                       IF i \in dev.absbits THEN CDiv(dev.absmin[i] + dev.absmax[i], 2) ELSE 0]]

\* the Controller record scan_controllers builds for device node d
Controller ==
  [d \in 1..NumDevices |->
     [name |-> DeviceNodes[d].name,
      guid |-> build_guid(DeviceNodes[d].id),
      caps |-> enumerate_buttons_axes(DeviceNodes[d])]]

(***************************************************************************)
(* Mapping definitions and the mapping line                                *)
(***************************************************************************)
Unmapped == [mapped_type |-> MAP_NONE, mapped_index |-> 0, hat_mask |-> 0]

\* the capture fields of the 10 entries after init_mappings
init_mappings == [i \in 0..(NUM_MAPPINGS - 1) |-> Unmapped]

\* the gcdb_name field of the 10 entries
gcdb_name ==
  [i \in 0..(NUM_MAPPINGS - 1) |->
     CASE i = 0 -> <<"l","e","f","t","t","r","i","g","g","e","r">>
       [] i = 1 -> <<"r","i","g","h","t","t","r","i","g","g","e","r">>
       [] i = 2 -> <<"x">>
       [] i = 3 -> <<"y">>
       [] i = 4 -> <<"a">>
       [] i = 5 -> <<"b">>
       [] i = 6 -> <<"b","a","c","k">>
       [] i = 7 -> <<"s","t","a","r","t">>
       [] i = 8 -> <<"l","e","f","t","x">>
       [] OTHER -> <<"l","e","f","t","y">>]

\* the code of one entry, a hat without its mask
MappingCode_nomask(m) ==
  CASE m.mapped_type = MAP_BUTTON -> <<"b">> \o FmtD(m.mapped_index)
    [] m.mapped_type = MAP_AXIS -> <<"a">> \o FmtD(m.mapped_index)
    [] m.mapped_type = MAP_HAT -> <<"h">> \o FmtD(m.mapped_index)
    [] OTHER -> <<>>

\* the switch of build_mapping_string: the code of one entry
MappingCode(m) ==
  CASE m.mapped_type = MAP_BUTTON -> <<"b">> \o FmtD(m.mapped_index)
    [] m.mapped_type = MAP_AXIS -> <<"a">> \o FmtD(m.mapped_index)
    [] m.mapped_type = MAP_HAT -> <<"h">> \o FmtD(m.mapped_index) \o <<".">> \o FmtD(m.hat_mask)
    [] OTHER -> <<>>

\* build_mapping_string leaving out the item of an unbound channel
RECURSIVE MappingItems_skip(_, _)
MappingItems_skip(maps, i) ==
  IF i >= NUM_MAPPINGS THEN <<>>
  ELSE (IF maps[i].mapped_type = MAP_NONE THEN <<>>
        ELSE gcdb_name[i] \o <<":">> \o MappingCode(maps[i]) \o <<",">>)
       \o MappingItems_skip(maps, i + 1)

RECURSIVE MappingItems(_, _)
MappingItems(maps, i) ==
  IF i >= NUM_MAPPINGS THEN <<>>
  ELSE gcdb_name[i] \o <<":">> \o MappingCode(maps[i]) \o <<",">> \o MappingItems(maps, i + 1)

build_mapping_string(c, maps) ==
  c.guid \o <<",">> \o c.name \o <<",">> \o MappingItems(maps, 0)
    \o <<"p","l","a","t","f","o","r","m",":","L","i","n","u","x",",">>

(***************************************************************************)
(* THEJOYSTICK detection                                                   *)
(***************************************************************************)
is_thec64_joystick(c) ==
  \/ StrContains(c.name, <<"T","H","E","C","6","4"," ","J","o","y","s","t","i","c","k">>)
  \/ c.guid = <<"0","3","0","0","0","0","0","0","5","9","1","c","0","0","0","0",
                "2","3","0","0","0","0","0","0","1","0","0","1","0","0","0","0">>
  \/ c.guid = <<"0","3","0","0","0","0","0","0","5","9","1","c","0","0","0","0",
                "2","4","0","0","0","0","0","0","1","0","0","1","0","0","0","0">>

\* find_thec64_nav's loop from index i on: ctrls are the registry's Controller
\* records and sel is app->sel_ctrl; -1 when the loop ends without a hit
RECURSIVE Thec64NavFrom_anysel(_, _, _)
Thec64NavFrom_anysel(ctrls, sel, i) ==
  IF i >= Len(ctrls) THEN -1
  ELSE IF is_thec64_joystick(ctrls[i + 1]) THEN i
  ELSE Thec64NavFrom_anysel(ctrls, sel, i + 1)

RECURSIVE Thec64NavFrom(_, _, _)
Thec64NavFrom(ctrls, sel, i) ==
  IF i >= Len(ctrls) THEN -1
  ELSE IF i # sel /\ is_thec64_joystick(ctrls[i + 1]) THEN i
  ELSE Thec64NavFrom(ctrls, sel, i + 1)

\* the registry index find_thec64_nav leaves in thec64_nav_idx; reg is the
\* registry (device nodes by index, from 0) and sel the selected index
find_thec64_nav(reg, sel) ==
  Thec64NavFrom([k \in 1..Len(reg) |-> Controller[reg[k]]], sel, 0)

(***************************************************************************)
(* Capture mode                                                            *)
(***************************************************************************)
\* the threshold of poll_mapping_input and read_nav_input for axis code
AxisThresh(caps, code) ==
  LET range == caps.axis_max[code] - caps.axis_min[code]
  IN IF range > 0 THEN CDiv(range * 2, 5) ELSE 1

\* poll_mapping_input capturing an axis only on a deflection above the midpoint
CaptureEvent_onesided(caps, ev, entry) ==
  IF ev[1] = EV_KEY /\ ev[3] = 1
  THEN LET idx == caps.btn_map[ev[2]]
       IN IF idx >= 0
          THEN <<TRUE, [entry EXCEPT !.mapped_type = MAP_BUTTON, !.mapped_index = idx]>>
          ELSE <<FALSE, entry>>
  ELSE IF ev[1] = EV_ABS
  THEN IF ev[2] >= ABS_HAT0X /\ ev[2] <= ABS_HAT3Y /\ ev[3] # 0
       THEN LET hat == CDiv(ev[2] - ABS_HAT0X, 2)
                mask == IF CMod(ev[2] - ABS_HAT0X, 2) = 0
                        THEN (IF ev[3] < 0 THEN 8 ELSE 2)
                        ELSE (IF ev[3] < 0 THEN 1 ELSE 4)
            IN <<TRUE, [mapped_type |-> MAP_HAT, mapped_index |-> hat, hat_mask |-> mask]>>
       ELSE LET aidx == caps.abs_map[ev[2]]
                delta == ev[3] - caps.axis_initial[ev[2]]
            IN IF aidx >= 0 /\ delta > AxisThresh(caps, ev[2])
               THEN <<TRUE, [entry EXCEPT !.mapped_type = MAP_AXIS, !.mapped_index = aidx]>>
               ELSE <<FALSE, entry>>
  ELSE <<FALSE, entry>>

\* poll_mapping_input capturing a key event whatever its value
CaptureEvent_anykey(caps, ev, entry) ==
  IF ev[1] = EV_KEY
  THEN LET idx == caps.btn_map[ev[2]]
       IN IF idx >= 0
          THEN <<TRUE, [entry EXCEPT !.mapped_type = MAP_BUTTON, !.mapped_index = idx]>>
          ELSE <<FALSE, entry>>
  ELSE IF ev[1] = EV_ABS
  THEN IF ev[2] >= ABS_HAT0X /\ ev[2] <= ABS_HAT3Y /\ ev[3] # 0
       THEN LET hat == CDiv(ev[2] - ABS_HAT0X, 2)
                mask == IF CMod(ev[2] - ABS_HAT0X, 2) = 0
                        THEN (IF ev[3] < 0 THEN 8 ELSE 2)
                        ELSE (IF ev[3] < 0 THEN 1 ELSE 4)
            IN <<TRUE, [mapped_type |-> MAP_HAT, mapped_index |-> hat, hat_mask |-> mask]>>
       ELSE LET aidx == caps.abs_map[ev[2]]
                delta == ev[3] - caps.axis_initial[ev[2]]
            IN IF aidx >= 0 /\ (delta > AxisThresh(caps, ev[2]) \/ delta < -AxisThresh(caps, ev[2]))
               THEN <<TRUE, [entry EXCEPT !.mapped_type = MAP_AXIS, !.mapped_index = aidx]>>
               ELSE <<FALSE, entry>>
  ELSE <<FALSE, entry>>

\* poll_mapping_input with the masks of the X and the Y code exchanged
CaptureEvent_swapped(caps, ev, entry) ==
  IF ev[1] = EV_KEY /\ ev[3] = 1
  THEN LET idx == caps.btn_map[ev[2]]
       IN IF idx >= 0
          THEN <<TRUE, [entry EXCEPT !.mapped_type = MAP_BUTTON, !.mapped_index = idx]>>
          ELSE <<FALSE, entry>>
  ELSE IF ev[1] = EV_ABS
  THEN IF ev[2] >= ABS_HAT0X /\ ev[2] <= ABS_HAT3Y /\ ev[3] # 0
       THEN LET hat == CDiv(ev[2] - ABS_HAT0X, 2)
                mask == IF CMod(ev[2] - ABS_HAT0X, 2) = 0
                        THEN (IF ev[3] < 0 THEN 1 ELSE 4)
                        ELSE (IF ev[3] < 0 THEN 8 ELSE 2)
            IN <<TRUE, [mapped_type |-> MAP_HAT, mapped_index |-> hat, hat_mask |-> mask]>>
       ELSE LET aidx == caps.abs_map[ev[2]]
                delta == ev[3] - caps.axis_initial[ev[2]]
            IN IF aidx >= 0 /\ (delta > AxisThresh(caps, ev[2]) \/ delta < -AxisThresh(caps, ev[2]))
               THEN <<TRUE, [entry EXCEPT !.mapped_type = MAP_AXIS, !.mapped_index = aidx]>>
               ELSE <<FALSE, entry>>
  ELSE <<FALSE, entry>>

\* what one event does to the entry being captured: <<captured, entry>>
CaptureEvent(caps, ev, entry) ==
  IF ev[1] = EV_KEY /\ ev[3] = 1
  THEN LET idx == caps.btn_map[ev[2]]
       IN IF idx >= 0
          THEN <<TRUE, [entry EXCEPT !.mapped_type = MAP_BUTTON, !.mapped_index = idx]>>
          ELSE <<FALSE, entry>>
  ELSE IF ev[1] = EV_ABS
  THEN IF ev[2] >= ABS_HAT0X /\ ev[2] <= ABS_HAT3Y /\ ev[3] # 0
       THEN LET hat == CDiv(ev[2] - ABS_HAT0X, 2)
                mask == IF CMod(ev[2] - ABS_HAT0X, 2) = 0
                        THEN (IF ev[3] < 0 THEN 8 ELSE 2)
                        ELSE (IF ev[3] < 0 THEN 1 ELSE 4)
            IN <<TRUE, [mapped_type |-> MAP_HAT, mapped_index |-> hat, hat_mask |-> mask]>>
       ELSE LET aidx == caps.abs_map[ev[2]]
                delta == ev[3] - caps.axis_initial[ev[2]]
            IN IF aidx >= 0 /\ (delta > AxisThresh(caps, ev[2]) \/ delta < -AxisThresh(caps, ev[2]))
               THEN <<TRUE, [entry EXCEPT !.mapped_type = MAP_AXIS, !.mapped_index = aidx]>>
               ELSE <<FALSE, entry>>
  ELSE <<FALSE, entry>>

\* the read loop of poll_mapping_input over the handle's queue q, from event i:
\* the result, the entry, and the events left unread in the queue
RECURSIVE PollFrom(_, _, _, _)
PollFrom(caps, q, i, entry) ==
  IF i > Len(q) THEN [got |-> FALSE, entry |-> entry, rest |-> <<>>]
  ELSE LET r == CaptureEvent(caps, q[i], entry)
       IN IF r[1] THEN [got |-> TRUE, entry |-> r[2], rest |-> SubSeq(q, i + 1, Len(q))]
          ELSE PollFrom(caps, q, i + 1, entry)

poll_mapping_input(caps, q, entry) == PollFrom(caps, q, 1, entry)

(***************************************************************************)
(* Navigation mode                                                         *)
(***************************************************************************)
NoNav == [dy |-> 0, dx |-> 0, btn_a |-> FALSE, btn_b |-> FALSE, btn_start |-> FALSE]

\* one event of the selected controller, read through the bound channels
NavEvent(caps, maps, ev, n) ==
  IF ev[1] = EV_KEY /\ ev[3] = 1
  THEN LET idx == caps.btn_map[ev[2]]
           hit(k) == maps[k].mapped_type = MAP_BUTTON /\ idx = maps[k].mapped_index
       IN IF idx < 0 THEN n
          ELSE [n EXCEPT !.btn_a = @ \/ hit(0) \/ hit(4),
                         !.btn_b = @ \/ hit(5),
                         !.btn_start = @ \/ hit(7)]
  ELSE IF ev[1] = EV_ABS
  THEN LET delta == ev[3] - caps.axis_initial[ev[2]]
           thresh == AxisThresh(caps, ev[2])
           axisdir == IF delta < -thresh THEN -1 ELSE IF delta > thresh THEN 1 ELSE 0
           hatdir == IF ev[3] < 0 THEN -1 ELSE IF ev[3] > 0 THEN 1 ELSE 0
           my == maps[9]
           mx == maps[8]
           dy1 == IF my.mapped_type = MAP_AXIS /\ caps.abs_map[ev[2]] = my.mapped_index /\ axisdir # 0
                  THEN axisdir ELSE n.dy
           dy2 == IF my.mapped_type = MAP_HAT /\ caps.hat_map[ev[2]] = my.mapped_index /\ hatdir # 0
                  THEN hatdir ELSE dy1
           dx1 == IF mx.mapped_type = MAP_AXIS /\ caps.abs_map[ev[2]] = mx.mapped_index /\ axisdir # 0
                  THEN axisdir ELSE n.dx
           dx2 == IF mx.mapped_type = MAP_HAT /\ caps.hat_map[ev[2]] = mx.mapped_index /\ hatdir # 0
                  THEN hatdir ELSE dx1
       IN [n EXCEPT !.dy = dy2, !.dx = dx2]
  ELSE n

\* the number of elements of a table of Controller: btn_map[KEY_MAX], the
\* others [ABS_MAX]
TableLen(tbl) == IF tbl = "btn_map" THEN KEY_MAX ELSE ABS_MAX

\* what reading element i of table tbl yields; outside the table the read is
\* undefined and yields oob
TableRead(tbl, i, oob) == IF i \in DOMAIN tbl THEN tbl[i] ELSE oob

\* the table elements poll_mapping_input reads for event ev, as <<table, index>>
CaptureLookups(caps, ev, oob) ==
  IF ev[1] = EV_KEY /\ ev[3] = 1 THEN {<<"btn_map", ev[2]>>}
  ELSE IF ev[1] = EV_ABS /\ ~(ev[2] >= ABS_HAT0X /\ ev[2] <= ABS_HAT3Y /\ ev[3] # 0)
  THEN {<<"abs_map", ev[2]>>}
         \cup (IF TableRead(caps.abs_map, ev[2], oob) >= 0
               THEN {<<"axis_max", ev[2]>>, <<"axis_min", ev[2]>>, <<"axis_initial", ev[2]>>}
               ELSE {})
  ELSE {}

\* the table elements read_nav_input reads for event ev of the selected controller
NavLookups(caps, maps, ev, oob) ==
  IF ev[1] = EV_KEY /\ ev[3] = 1 THEN {<<"btn_map", ev[2]>>}
  ELSE IF ev[1] = EV_ABS
  THEN UNION {(IF m.mapped_type = MAP_AXIS
               THEN {<<"abs_map", ev[2]>>}
                      \cup (IF TableRead(caps.abs_map, ev[2], oob) = m.mapped_index
                            THEN {<<"axis_max", ev[2]>>, <<"axis_min", ev[2]>>,
                                  <<"axis_initial", ev[2]>>}
                            ELSE {})
               ELSE {})
              \cup (IF m.mapped_type = MAP_HAT THEN {<<"hat_map", ev[2]>>} ELSE {}) :
              m \in {maps[9], maps[8]}}
  ELSE {}

RECURSIVE NavFrom(_, _, _, _, _)
NavFrom(caps, maps, q, i, n) ==
  IF i > Len(q) THEN n ELSE NavFrom(caps, maps, q, i + 1, NavEvent(caps, maps, q[i], n))

\* one event of THEJOYSTICK, read through the hardcoded mapping
Thec64Event(ev, n) ==
  IF ev[1] = EV_KEY /\ ev[3] = 1
  THEN IF ev[2] = BTN_TRIGGER \/ ev[2] = BTN_TOP2 THEN [n EXCEPT !.btn_a = TRUE]
       ELSE IF ev[2] = BTN_PINKIE THEN [n EXCEPT !.btn_b = TRUE]
       ELSE IF ev[2] = BTN_BASE2 THEN [n EXCEPT !.btn_start = TRUE]
       ELSE n
  ELSE IF ev[1] = EV_ABS
  THEN LET delta == ev[3] - 127
           thresh == 50
           dir == IF delta < -thresh THEN -1 ELSE IF delta > thresh THEN 1 ELSE 0
       IN [n EXCEPT !.dy = IF ev[2] = ABS_Y /\ dir # 0 THEN dir ELSE @,
                    !.dx = IF ev[2] = ABS_X /\ dir # 0 THEN dir ELSE @]
  ELSE n

RECURSIVE Thec64From(_, _, _)
Thec64From(q, i, n) ==
  IF i > Len(q) THEN n ELSE Thec64From(q, i + 1, Thec64Event(q[i], n))

\* read_thec64_nav merged into the record n; nothing is read without a navigator
read_thec64_nav(navq, n) == Thec64From(navq, 1, n)

\* read_nav_input reading THEJOYSTICK before the selected controller
read_nav_input_navfirst(caps, maps, selq, navq) ==
  NavFrom(caps, maps, selq, 1, read_thec64_nav(navq, NoNav))

\* read_nav_input: the selected controller's queue selq, then THEJOYSTICK's navq
read_nav_input(caps, maps, selq, navq) ==
  read_thec64_nav(navq, NavFrom(caps, maps, selq, 1, NoNav))

got_ctrl(n) == n.dy # 0 \/ n.dx # 0 \/ n.btn_a \/ n.btn_b \/ n.btn_start

\* read_keyboard on one keyboard handle: the code of the first pressed key (0 if
\* none) and the events left unread
RECURSIVE KeyFrom(_, _)
KeyFrom(q, i) ==
  IF i > Len(q) THEN [key |-> 0, rest |-> <<>>]
  ELSE IF q[i][1] = EV_KEY /\ q[i][3] = 1
  THEN [key |-> q[i][2], rest |-> SubSeq(q, i + 1, Len(q))]
  ELSE KeyFrom(q, i + 1)

\* read_keyboard reading the handle to the end
read_keyboard_drain(q) == [key |-> KeyFrom(q, 1).key, rest |-> <<>>]

read_keyboard(q) == KeyFrom(q, 1)

(***************************************************************************)
(* Controller detection                                                    *)
(***************************************************************************)
\* is_gamepad accepting a device that has one of the two stick axes
is_gamepad_anyaxis(dev) ==
  \/ (EV_ABS \in dev.evbits /\ (ABS_X \in dev.absbits \/ ABS_Y \in dev.absbits))
  \/ (EV_KEY \in dev.evbits
      /\ \E i \in dev.keybits :
           \/ (i >= BTN_JOYSTICK /\ i < BTN_JOYSTICK + 16)
           \/ (i >= BTN_GAMEPAD /\ i < BTN_GAMEPAD + 16))

is_gamepad(dev) ==
  \/ (EV_ABS \in dev.evbits /\ ABS_X \in dev.absbits /\ ABS_Y \in dev.absbits)
  \/ (EV_KEY \in dev.evbits
      /\ \E i \in dev.keybits :
           \/ (i >= BTN_JOYSTICK /\ i < BTN_JOYSTICK + 16)
           \/ (i >= BTN_GAMEPAD /\ i < BTN_GAMEPAD + 16))

(***************************************************************************)
(* The registry scan, handle by handle                                     *)
(***************************************************************************)
\* an entry of /dev/input: whether its name is event<N>, the device behind it,
\* and the calls on it that fail in this scan ("open", the three capability
\* queries of is_gamepad, "EVIOCGID", "EVIOCGNAME", and "enumerate" for the
\* queries of enumerate_buttons_axes)
DirEntry(ev, dev, fails) == [event |-> ev, dev |-> dev, fails |-> fails]

UnknownName == <<"U","n","k","n","o","w","n"," ","C","o","n","t","r","o","l","l","e","r">>

\* the lowest descriptor number not in use, which open and opendir return
LowestFree(fds) ==
  CHOOSE n \in 0..Cardinality(fds) : n \notin fds /\ \A k \in 0..(n - 1) : k \in fds

\* the bit fields is_gamepad sees: a query that fails leaves the zeroed buffer
\* (and a failing EVIOCGBIT(0) makes it return 0, as no event-type bit does)
SeenByIsGamepad(e) ==
  [e.dev EXCEPT !.evbits = IF "EVIOCGBIT(0)" \in e.fails THEN {} ELSE @,
                !.absbits = IF "EVIOCGBIT(EV_ABS)" \in e.fails THEN {} ELSE @,
                !.keybits = IF "EVIOCGBIT(EV_KEY)" \in e.fails THEN {} ELSE @]

\* the bit fields enumerate_buttons_axes sees; it does not test its queries
SeenByEnumerate(e) ==
  [e.dev EXCEPT !.absbits = IF "enumerate" \in e.fails THEN {} ELSE @,
                !.keybits = IF "enumerate" \in e.fails THEN {} ELSE @]

\* the body of scan_controllers' loop for entry k of the directory, leaking the
\* handle of a device that is not a gamepad
ScanEntry_leak(s, dir, k) ==
  LET e == dir[k]
  IN IF ~e.event \/ "open" \in e.fails THEN s
     ELSE LET fd == LowestFree(s.fds)
              opened == [s EXCEPT !.fds = @ \cup {fd}, !.log = Append(@, <<"open", fd>>)]
              closed == [opened EXCEPT !.fds = @ \ {fd}, !.log = Append(@, <<"close", fd>>)]
              caps == enumerate_buttons_axes(SeenByEnumerate(e))
          IN IF ~is_gamepad(SeenByIsGamepad(e)) THEN opened
             ELSE IF "EVIOCGID" \in e.fails THEN closed
             ELSE [opened EXCEPT !.reg = Append(@,
                     [fd |-> fd, entry |-> k,
                      name |-> IF "EVIOCGNAME" \in e.fails THEN UnknownName ELSE e.dev.name,
                      num_buttons |-> caps.num_buttons, num_axes |-> caps.num_axes,
                      num_hats |-> caps.num_hats])]

\* the body of scan_controllers' loop for entry k of the directory; s holds the
\* registry built so far, the open descriptors of the process and the calls
\* made on descriptors
ScanEntry(s, dir, k) ==
  LET e == dir[k]
  IN IF ~e.event \/ "open" \in e.fails THEN s
     ELSE LET fd == LowestFree(s.fds)
              opened == [s EXCEPT !.fds = @ \cup {fd}, !.log = Append(@, <<"open", fd>>)]
              closed == [opened EXCEPT !.fds = @ \ {fd}, !.log = Append(@, <<"close", fd>>)]
              caps == enumerate_buttons_axes(SeenByEnumerate(e))
          IN IF ~is_gamepad(SeenByIsGamepad(e)) THEN closed
             ELSE IF "EVIOCGID" \in e.fails THEN closed
             ELSE [opened EXCEPT !.reg = Append(@,
                     [fd |-> fd, entry |-> k,
                      name |-> IF "EVIOCGNAME" \in e.fails THEN UnknownName ELSE e.dev.name,
                      num_buttons |-> caps.num_buttons, num_axes |-> caps.num_axes,
                      num_hats |-> caps.num_hats])]

\* the readdir loop from entry k on; it stops when the registry is full
RECURSIVE ScanEntries(_, _, _)
ScanEntries(s, dir, k) ==
  IF k > Len(dir) \/ Len(s.reg) >= MAX_CONTROLLERS THEN s
  ELSE ScanEntries(ScanEntry(s, dir, k), dir, k + 1)

\* the loop that closes the handles of the registry reg, from entry i on
RECURSIVE CloseFrom(_, _, _)
CloseFrom(s, reg, i) ==
  IF i > Len(reg) THEN s
  ELSE CloseFrom([s EXCEPT !.fds = @ \ {reg[i].fd}, !.log = Append(@, <<"close", reg[i].fd>>)],
                 reg, i + 1)

\* scan_controllers with the registry reg and the open descriptors fds, on the
\* directory dir (its entries, and whether opendir succeeds): the new registry,
\* the open descriptors and the calls made
ScanHandles(reg, fds, dir) ==
  LET s0 == CloseFrom([reg |-> <<>>, fds |-> fds, log |-> <<>>], reg, 1)
  IN IF ~dir.ok THEN s0
     ELSE LET dfd == LowestFree(s0.fds)
              s1 == [s0 EXCEPT !.fds = @ \cup {dfd}, !.log = Append(@, <<"opendir", dfd>>)]
              s2 == ScanEntries(s1, dir.entries, 1)
          IN [s2 EXCEPT !.fds = @ \ {dfd}, !.log = Append(@, <<"closedir", dfd>>)]

(***************************************************************************)
(* Directory browser                                                       *)
(***************************************************************************)
RootPath == <<"/">>
MntPath == <<"/","m","n","t">>
DotDot == <<".",".">>
ExportHere == <<">",">"," ","E","x","p","o","r","t"," ","h","e","r","e"," ","<","<">>

\* the file system: the sub-directories of a directory, as qsort leaves them
SubDirs(path) ==
  IF path = RootPath THEN << <<"m","n","t">> >>
  ELSE IF path = MntPath THEN << <<"u","s","b">> >>
  ELSE <<>>

\* b->entries after browser_load(b, path)
BrowserEntries(path) ==
  (IF path # RootPath THEN <<[name |-> DotDot, is_dir |-> TRUE]>> ELSE <<>>)
    \o [k \in 1..Len(SubDirs(path)) |-> [name |-> SubDirs(path)[k], is_dir |-> TRUE]]
    \o <<[name |-> ExportHere, is_dir |-> FALSE]>>

browser_load(path) ==
  [path |-> path, count |-> Len(BrowserEntries(path)), selected |-> 0, scroll |-> 0]

\* the path itself
ParentPath_same(path) == path

\* the path one level up: the text before the last '/', or "/"
ParentPath(path) ==
  LET slash == StrRChr(path, "/")
  IN IF slash > 1 THEN SubSeq(path, 1, slash - 1) ELSE RootPath

\* the path of the sub-directory name of path
ChildPath(path, name) ==
  IF path = RootPath THEN <<"/">> \o FmtPrec(name, 250)
  ELSE FmtPrec(path, 250) \o <<"/">> \o FmtPrec(name, 250)

\* the file <GUID>.txt in the root directory
ExportFilePath_root(path, guid) ==
  <<"/">> \o FmtPrec(guid, 32) \o <<".","t","x","t">>

\* the file the export writes: <path>/<GUID>.txt
ExportFilePath(path, guid) ==
  IF path = RootPath THEN <<"/">> \o FmtPrec(guid, 32) \o <<".","t","x","t">>
  ELSE FmtPrec(path, 470) \o <<"/">> \o FmtPrec(guid, 32) \o <<".","t","x","t">>

(***************************************************************************)
(* State                                                                   *)
(***************************************************************************)
VARIABLES
  state,           \* app.state
  controllers,     \* app.controllers[0..num_controllers-1], each a device node
  sel_ctrl,        \* app.sel_ctrl, -1 when no controller is selected
  thec64_nav_idx,  \* app.thec64_nav_idx, -1 when there is no navigator
  mappings,        \* the capture fields of app.mappings[0..9]
  cur_map,         \* app.cur_map
  redo_single,     \* app.redo_single, -1 in sequential capture
  review_sel,      \* app.review_sel
  save_path,       \* app.save_path
  mapping_str,     \* app.mapping_str
  browser,         \* app.browser
  queue,           \* the unread events of each controller handle, by device node
  kbd,             \* the unread events of the keyboard handle
  files,           \* the files written so far, each [path, content]
  pc,              \* where the main loop is: "loop", or "settle" inside update_mapping's usleep
  extras,          \* the inputs made so far beside the presses of the prompted button
  caplog,          \* history: the results of the sequential captures of this session
  redo_snap,       \* history: the bindings when the redo in progress began
  last_poll,       \* history: what the latest menu poll read and how its fopen ended, or
                   \* what the drain after the latest settle delay discarded; NoPoll
                   \* after other polls
  g_quit,          \* the flag sig_handler sets
  fb,              \* what the display shows: "frame" (a rendered screen) or "black"
  num_kbd_fds,     \* app.num_kbd_fds
  open_fds,        \* the open input handles of the process: <<"event", d>> for the handle
                   \* of device node d, <<"kbd", 0>> for the keyboard's
  arg,             \* the input of the function under examination (NoArg in runs of the wizard)
  res,             \* its result, NoRes until it has been applied
  dev_dir,         \* the device nodes that have an entry in /dev/input
  elapsed          \* time_ms() - app.last_scan in ms, not counted beyond RESCAN_MS + TickMs

app_vars == <<state, controllers, sel_ctrl, thec64_nav_idx, mappings, cur_map, redo_single,
              review_sel, save_path, mapping_str, browser>>
env_vars == <<extras>>
run_vars == <<g_quit, fb, num_kbd_fds, open_fds>>
unit_vars == <<arg, res>>
sys_vars == <<dev_dir, elapsed>>
vars == <<app_vars, queue, kbd, files, pc, env_vars, caplog, redo_snap, last_poll, run_vars, unit_vars,
          sys_vars>>

NoArg == [fn |-> "none"]
NoRes == [fn |-> "none"]

NoPoll == [from |-> "", n |-> NoNav, key |-> 0, row |-> 0, fopen |-> "", drained |-> <<>>]

num_controllers == Len(controllers)

\* the device node behind registry index i
NodeOf(i) == controllers[i + 1]

\* the queue function with the handles of the registry indices in idx emptied
Drained(q, reg, idx) ==
  [d \in 1..NumDevices |-> IF \E i \in idx : reg[i + 1] = d THEN <<>> ELSE q[d]]

\* drain_nav_events: the selected controller's handle and the navigator's
drain_nav_events(q) ==
  Drained(q, controllers, {sel_ctrl} \cup (IF thec64_nav_idx >= 0 THEN {thec64_nav_idx} ELSE {}))

\* the registry scan_controllers builds: the gamepad nodes that have an entry in
\* /dev/input, in readdir order, at most MAX_CONTROLLERS of them
RECURSIVE ScanFrom(_, _)
ScanFrom(d, reg) ==
  IF d > NumDevices \/ Len(reg) >= MAX_CONTROLLERS THEN reg
  ELSE ScanFrom(d + 1, IF d \in dev_dir /\ is_gamepad(DeviceNodes[d]) THEN Append(reg, d) ELSE reg)

scan_controllers == ScanFrom(1, <<>>)

\* main, up to the main loop
\* the handles scan_controllers holds open for the registry reg
HandlesOf(reg) == {<<"event", reg[i]>> : i \in 1..Len(reg)}

\* the entries of /dev/input being the nodes in dir
main_start(dir) ==
  /\ state = STATE_DETECT
  /\ dev_dir = dir
  /\ elapsed = 0
  /\ controllers = scan_controllers
  /\ sel_ctrl = -1
  /\ thec64_nav_idx = -1
  /\ mappings = init_mappings
  /\ cur_map = 0
  /\ redo_single = -1
  /\ review_sel = 0
  /\ save_path = <<>>
  /\ mapping_str = <<>>
  /\ browser = [path |-> <<>>, count |-> 0, selected |-> 0, scroll |-> 0]
  /\ queue = [d \in 1..NumDevices |-> <<>>]
  /\ kbd = <<>>
  /\ files = {}
  /\ pc = "loop"
  /\ extras = 0
  /\ caplog = <<>>
  /\ redo_snap = <<>>
  /\ last_poll = NoPoll
  /\ g_quit = FALSE
  /\ fb = "frame"
  /\ num_kbd_fds = 1
  /\ open_fds = HandlesOf(scan_controllers) \cup {<<"kbd", 0>>}
  /\ arg = NoArg
  /\ res = NoRes

Init == main_start(1..NumDevices)

(***************************************************************************)
(* State: detect controller                                                *)
(***************************************************************************)
IsPress(ev) == ev[1] = EV_KEY /\ ev[3] = 1

\* the least time between a selection and the return to DETECT: REVIEW is
\* entered after NUM_MAPPINGS captures, each followed by usleep(DEBOUNCE_MS), and
\* that is more than RESCAN_MS, so the clock reads its largest value by then
SessionMs == RESCAN_MS + TickMs

\* update_detect selecting the last controller that has a press queued
update_detect_last(rescan) ==
  /\ last_poll' = NoPoll
  /\ state = STATE_DETECT
  /\ pc = "loop"
  /\ ~g_quit
  /\ LET reg == IF rescan THEN scan_controllers ELSE controllers
         q0 == IF rescan THEN [d \in 1..NumDevices |-> <<>>] ELSE queue
         hits == {i \in 0..(Len(reg) - 1) : \E k \in 1..Len(q0[reg[i + 1]]) : IsPress(q0[reg[i + 1]][k])}
     IN /\ controllers' = reg
        /\ elapsed' = IF hits # {} THEN SessionMs ELSE IF rescan THEN 0 ELSE elapsed
        /\ open_fds' = (open_fds \ HandlesOf(controllers)) \cup HandlesOf(reg)
        /\ queue' = Drained(q0, reg, 0..(Len(reg) - 1))
        /\ IF hits = {}
           THEN UNCHANGED <<state, sel_ctrl, thec64_nav_idx, cur_map, redo_single>>
           ELSE LET i == CHOOSE i \in hits : \A j \in hits : i >= j
                IN /\ sel_ctrl' = i
                   /\ thec64_nav_idx' = find_thec64_nav(reg, i)
                   /\ state' = STATE_MAPPING
                   /\ cur_map' = 0
                   /\ redo_single' = -1
  /\ UNCHANGED <<mappings, review_sel, save_path, mapping_str, browser, kbd, files, pc,
                 env_vars, caplog, redo_snap, g_quit, fb, num_kbd_fds, unit_vars, dev_dir>>

\* now - app->last_scan >= RESCAN_MS
rescan_due_early == elapsed >= RESCAN_MS

\* now - app->last_scan > RESCAN_MS
rescan_due == elapsed > RESCAN_MS

\* update_detect; rescan is the outcome of now - app->last_scan > RESCAN_MS
update_detect(rescan) ==
  /\ last_poll' = NoPoll
  /\ state = STATE_DETECT
  /\ pc = "loop"
  /\ ~g_quit
  /\ LET reg == IF rescan THEN scan_controllers ELSE controllers
         q0 == IF rescan THEN [d \in 1..NumDevices |-> <<>>] ELSE queue
         hits == {i \in 0..(Len(reg) - 1) : \E k \in 1..Len(q0[reg[i + 1]]) : IsPress(q0[reg[i + 1]][k])}
     IN /\ controllers' = reg
        /\ elapsed' = IF hits # {} THEN SessionMs ELSE IF rescan THEN 0 ELSE elapsed
        /\ open_fds' = (open_fds \ HandlesOf(controllers)) \cup HandlesOf(reg)
        /\ queue' = Drained(q0, reg, 0..(Len(reg) - 1))
        /\ IF hits = {}
           THEN UNCHANGED <<state, sel_ctrl, thec64_nav_idx, cur_map, redo_single>>
           ELSE LET i == CHOOSE i \in hits : \A j \in hits : i <= j
                IN /\ sel_ctrl' = i
                   /\ thec64_nav_idx' = find_thec64_nav(reg, i)
                   /\ state' = STATE_MAPPING
                   /\ cur_map' = 0
                   /\ redo_single' = -1
  /\ UNCHANGED <<mappings, review_sel, save_path, mapping_str, browser, kbd, files, pc,
                 env_vars, caplog, redo_snap, g_quit, fb, num_kbd_fds, unit_vars, dev_dir>>

(***************************************************************************)
(* State: mapping                                                          *)
(***************************************************************************)
\* update_mapping up to the usleep: the capture poll and the first drain
update_mapping_poll ==
  /\ last_poll' = NoPoll
  /\ state = STATE_MAPPING
  /\ pc = "loop"
  /\ ~g_quit
  /\ LET r == poll_mapping_input(Controller[NodeOf(sel_ctrl)].caps, queue[NodeOf(sel_ctrl)],
                                 mappings[cur_map])
     IN /\ mappings' = [mappings EXCEPT ![cur_map] = r.entry]
        /\ queue' = Drained(queue, controllers, {sel_ctrl})
        /\ pc' = IF r.got THEN "settle" ELSE "loop"
        /\ caplog' = IF r.got /\ redo_single < 0 THEN Append(caplog, r.entry) ELSE caplog
  /\ UNCHANGED <<state, controllers, sel_ctrl, thec64_nav_idx, cur_map, redo_single, review_sel,
                 save_path, mapping_str, browser, kbd, files, env_vars, redo_snap, run_vars, unit_vars, sys_vars>>

\* update_mapping without the drain after the usleep
update_mapping_settle_nodrain ==
  /\ state = STATE_MAPPING
  /\ pc = "settle"
  /\ last_poll' = [NoPoll EXCEPT !.from = STATE_MAPPING, !.drained = queue[NodeOf(sel_ctrl)]]
  /\ pc' = "loop"
  /\ queue' = queue
  /\ IF redo_single >= 0
     THEN /\ redo_single' = -1
          /\ state' = STATE_REVIEW
          /\ redo_snap' = <<>>
          /\ UNCHANGED <<cur_map, review_sel, mapping_str>>
     ELSE /\ cur_map' = cur_map + 1
          /\ IF cur_map + 1 >= NUM_MAPPINGS
             THEN /\ state' = STATE_REVIEW
                  /\ review_sel' = 0
                  /\ mapping_str' = build_mapping_string(Controller[NodeOf(sel_ctrl)], mappings)
             ELSE UNCHANGED <<state, review_sel, mapping_str>>
          /\ UNCHANGED <<redo_single, redo_snap>>
  /\ UNCHANGED <<controllers, sel_ctrl, thec64_nav_idx, mappings, save_path, browser, kbd, files,
                 env_vars, caplog, run_vars, unit_vars, sys_vars>>

\* update_mapping leaving for REVIEW one capture early
update_mapping_settle_early ==
  /\ state = STATE_MAPPING
  /\ pc = "settle"
  /\ last_poll' = [NoPoll EXCEPT !.from = STATE_MAPPING, !.drained = queue[NodeOf(sel_ctrl)]]
  /\ pc' = "loop"
  /\ queue' = Drained(queue, controllers, {sel_ctrl})
  /\ IF redo_single >= 0
     THEN /\ redo_single' = -1
          /\ state' = STATE_REVIEW
          /\ redo_snap' = <<>>
          /\ UNCHANGED <<cur_map, review_sel, mapping_str>>
     ELSE /\ cur_map' = cur_map + 1
          /\ IF cur_map + 1 >= NUM_MAPPINGS - 1
             THEN /\ state' = STATE_REVIEW
                  /\ review_sel' = 0
                  /\ mapping_str' = build_mapping_string(Controller[NodeOf(sel_ctrl)], mappings)
             ELSE UNCHANGED <<state, review_sel, mapping_str>>
          /\ UNCHANGED <<redo_single, redo_snap>>
  /\ UNCHANGED <<controllers, sel_ctrl, thec64_nav_idx, mappings, save_path, browser, kbd, files,
                 env_vars, caplog, run_vars, unit_vars, sys_vars>>

\* update_mapping returning from a redo with redo_single left set
update_mapping_settle_keepredo ==
  /\ state = STATE_MAPPING
  /\ pc = "settle"
  /\ last_poll' = [NoPoll EXCEPT !.from = STATE_MAPPING, !.drained = queue[NodeOf(sel_ctrl)]]
  /\ pc' = "loop"
  /\ queue' = Drained(queue, controllers, {sel_ctrl})
  /\ IF redo_single >= 0
     THEN /\ redo_single' = redo_single
          /\ state' = STATE_REVIEW
          /\ redo_snap' = <<>>
          /\ UNCHANGED <<cur_map, review_sel, mapping_str>>
     ELSE /\ cur_map' = cur_map + 1
          /\ IF cur_map + 1 >= NUM_MAPPINGS
             THEN /\ state' = STATE_REVIEW
                  /\ review_sel' = 0
                  /\ mapping_str' = build_mapping_string(Controller[NodeOf(sel_ctrl)], mappings)
             ELSE UNCHANGED <<state, review_sel, mapping_str>>
          /\ UNCHANGED <<redo_single, redo_snap>>
  /\ UNCHANGED <<controllers, sel_ctrl, thec64_nav_idx, mappings, save_path, browser, kbd, files,
                 env_vars, caplog, run_vars, unit_vars, sys_vars>>

\* update_mapping after the usleep: the second drain, then the next channel or REVIEW
update_mapping_settle ==
  /\ state = STATE_MAPPING
  /\ pc = "settle"
  /\ last_poll' = [NoPoll EXCEPT !.from = STATE_MAPPING, !.drained = queue[NodeOf(sel_ctrl)]]
  /\ pc' = "loop"
  /\ queue' = Drained(queue, controllers, {sel_ctrl})
  /\ IF redo_single >= 0
     THEN /\ redo_single' = -1
          /\ state' = STATE_REVIEW
          /\ redo_snap' = <<>>
          /\ UNCHANGED <<cur_map, review_sel, mapping_str>>
     ELSE /\ cur_map' = cur_map + 1
          /\ IF cur_map + 1 >= NUM_MAPPINGS
             THEN /\ state' = STATE_REVIEW
                  /\ review_sel' = 0
                  /\ mapping_str' = build_mapping_string(Controller[NodeOf(sel_ctrl)], mappings)
             ELSE UNCHANGED <<state, review_sel, mapping_str>>
          /\ UNCHANGED <<redo_single, redo_snap>>
  /\ UNCHANGED <<controllers, sel_ctrl, thec64_nav_idx, mappings, save_path, browser, kbd, files,
                 env_vars, caplog, run_vars, unit_vars, sys_vars>>

(***************************************************************************)
(* State: review                                                           *)
(***************************************************************************)
\* the queue of THEJOYSTICK's handle, empty when there is no navigator
NavQueue == IF thec64_nav_idx >= 0 THEN queue[NodeOf(thec64_nav_idx)] ELSE <<>>

\* the record read_nav_input returns in this iteration
NavInput ==
  read_nav_input(Controller[NodeOf(sel_ctrl)].caps, mappings, queue[NodeOf(sel_ctrl)], NavQueue)

\* the queues after read_nav_input has read both handles to the end
AfterNavRead == drain_nav_events(queue)

\* the vertical navigation of update_review wrapping around at both ends
ReviewMove_wrap(sel, dy) == (sel + dy + REVIEW_TOTAL_ITEMS) % REVIEW_TOTAL_ITEMS

\* the vertical navigation of update_review and its clamp
ReviewMove(sel, dy) ==
  LET s == sel + dy
  IN IF s < 0 THEN 0 ELSE IF s >= REVIEW_TOTAL_ITEMS THEN REVIEW_TOTAL_ITEMS - 1 ELSE s

\* update_review restarting when Save is confirmed
ReviewDispatch_swapped(n, key, sel) ==
  LET dy == IF key = KEY_DOWN THEN 1 ELSE IF key = KEY_UP THEN -1 ELSE n.dy
      dx == IF key = KEY_RIGHT THEN 1 ELSE n.dx
      sel1 == IF dy # 0 THEN ReviewMove(sel, dy) ELSE sel
      onrow == sel1 >= 0 /\ sel1 < NUM_MAPPINGS
  IN IF key = KEY_1 THEN [act |-> "redo", sel |-> sel]
     ELSE IF key = KEY_2 THEN [act |-> "save", sel |-> sel]
     ELSE IF key = KEY_3 THEN [act |-> "restart", sel |-> sel]
     ELSE IF key = KEY_4 THEN [act |-> "another", sel |-> sel]
     ELSE IF key = KEY_Q \/ key = KEY_ESC THEN [act |-> "quit", sel |-> sel]
     ELSE IF ~got_ctrl(n) /\ key = 0 THEN [act |-> "none", sel |-> sel]
     ELSE IF dx > 0 /\ onrow THEN [act |-> "redo", sel |-> sel1]
     ELSE IF (n.btn_a \/ key = KEY_ENTER \/ key = KEY_SPACE) /\ onrow THEN [act |-> "redo", sel |-> sel1]
     ELSE IF (n.btn_a \/ key = KEY_ENTER \/ key = KEY_SPACE) /\ sel1 = REVIEW_ACTION_SAVE
       THEN [act |-> "restart", sel |-> sel1]
     ELSE IF (n.btn_a \/ key = KEY_ENTER \/ key = KEY_SPACE) /\ sel1 = REVIEW_ACTION_RESTART
       THEN [act |-> "restart", sel |-> sel1]
     ELSE IF (n.btn_a \/ key = KEY_ENTER \/ key = KEY_SPACE) /\ sel1 = REVIEW_ACTION_ANOTHER
       THEN [act |-> "another", sel |-> sel1]
     ELSE IF (n.btn_a \/ key = KEY_ENTER \/ key = KEY_SPACE) /\ sel1 = REVIEW_ACTION_QUIT
       THEN [act |-> "quit", sel |-> sel1]
     ELSE IF n.btn_b /\ onrow THEN [act |-> "redo", sel |-> sel1]
     ELSE IF n.btn_start THEN [act |-> "save", sel |-> sel1]
     ELSE [act |-> "none", sel |-> sel1]

\* update_review evaluating redo and confirm on the row the cursor was on when
\* the poll began, and leaving the cursor there when it acts
ReviewDispatch_actfirst(n, key, sel) ==
  LET dy == IF key = KEY_DOWN THEN 1 ELSE IF key = KEY_UP THEN -1 ELSE n.dy
      dx == IF key = KEY_RIGHT THEN 1 ELSE n.dx
      sel1 == IF dy # 0 THEN ReviewMove(sel, dy) ELSE sel
      onrow == sel >= 0 /\ sel < NUM_MAPPINGS
  IN IF key = KEY_1 THEN [act |-> "redo", sel |-> sel]
     ELSE IF key = KEY_2 THEN [act |-> "save", sel |-> sel]
     ELSE IF key = KEY_3 THEN [act |-> "restart", sel |-> sel]
     ELSE IF key = KEY_4 THEN [act |-> "another", sel |-> sel]
     ELSE IF key = KEY_Q \/ key = KEY_ESC THEN [act |-> "quit", sel |-> sel]
     ELSE IF ~got_ctrl(n) /\ key = 0 THEN [act |-> "none", sel |-> sel]
     ELSE IF dx > 0 /\ onrow THEN [act |-> "redo", sel |-> sel]
     ELSE IF (n.btn_a \/ key = KEY_ENTER \/ key = KEY_SPACE) /\ onrow THEN [act |-> "redo", sel |-> sel]
     ELSE IF (n.btn_a \/ key = KEY_ENTER \/ key = KEY_SPACE) /\ sel = REVIEW_ACTION_SAVE
       THEN [act |-> "save", sel |-> sel]
     ELSE IF (n.btn_a \/ key = KEY_ENTER \/ key = KEY_SPACE) /\ sel = REVIEW_ACTION_RESTART
       THEN [act |-> "restart", sel |-> sel]
     ELSE IF (n.btn_a \/ key = KEY_ENTER \/ key = KEY_SPACE) /\ sel = REVIEW_ACTION_ANOTHER
       THEN [act |-> "another", sel |-> sel]
     ELSE IF (n.btn_a \/ key = KEY_ENTER \/ key = KEY_SPACE) /\ sel = REVIEW_ACTION_QUIT
       THEN [act |-> "quit", sel |-> sel]
     ELSE IF n.btn_b /\ onrow THEN [act |-> "redo", sel |-> sel]
     ELSE IF n.btn_start THEN [act |-> "save", sel |-> sel]
     ELSE [act |-> "none", sel |-> sel1]

\* what update_review does with the merged record n and the key read: the
\* action taken and the cursor row it leaves
ReviewDispatch(n, key, sel) ==
  LET dy == IF key = KEY_DOWN THEN 1 ELSE IF key = KEY_UP THEN -1 ELSE n.dy
      dx == IF key = KEY_RIGHT THEN 1 ELSE n.dx
      sel1 == IF dy # 0 THEN ReviewMove(sel, dy) ELSE sel
      onrow == sel1 >= 0 /\ sel1 < NUM_MAPPINGS
  IN IF key = KEY_1 THEN [act |-> "redo", sel |-> sel]
     ELSE IF key = KEY_2 THEN [act |-> "save", sel |-> sel]
     ELSE IF key = KEY_3 THEN [act |-> "restart", sel |-> sel]
     ELSE IF key = KEY_4 THEN [act |-> "another", sel |-> sel]
     ELSE IF key = KEY_Q \/ key = KEY_ESC THEN [act |-> "quit", sel |-> sel]
     ELSE IF ~got_ctrl(n) /\ key = 0 THEN [act |-> "none", sel |-> sel]
     ELSE IF dx > 0 /\ onrow THEN [act |-> "redo", sel |-> sel1]
     ELSE IF (n.btn_a \/ key = KEY_ENTER \/ key = KEY_SPACE) /\ onrow THEN [act |-> "redo", sel |-> sel1]
     ELSE IF (n.btn_a \/ key = KEY_ENTER \/ key = KEY_SPACE) /\ sel1 = REVIEW_ACTION_SAVE
       THEN [act |-> "save", sel |-> sel1]
     ELSE IF (n.btn_a \/ key = KEY_ENTER \/ key = KEY_SPACE) /\ sel1 = REVIEW_ACTION_RESTART
       THEN [act |-> "restart", sel |-> sel1]
     ELSE IF (n.btn_a \/ key = KEY_ENTER \/ key = KEY_SPACE) /\ sel1 = REVIEW_ACTION_ANOTHER
       THEN [act |-> "another", sel |-> sel1]
     ELSE IF (n.btn_a \/ key = KEY_ENTER \/ key = KEY_SPACE) /\ sel1 = REVIEW_ACTION_QUIT
       THEN [act |-> "quit", sel |-> sel1]
     ELSE IF n.btn_b /\ onrow THEN [act |-> "redo", sel |-> sel1]
     ELSE IF n.btn_start THEN [act |-> "save", sel |-> sel1]
     ELSE [act |-> "none", sel |-> sel1]

\* review_redo_selected clearing every channel
review_redo_selected_all(sel) ==
  IF sel >= 0 /\ sel < NUM_MAPPINGS
  THEN /\ redo_single' = sel
       /\ cur_map' = sel
       /\ mappings' = [i \in 0..(NUM_MAPPINGS - 1) |-> [mappings[i] EXCEPT !.mapped_type = MAP_NONE]]
       /\ state' = STATE_MAPPING
       /\ redo_snap' = mappings
       /\ caplog' = <<>>
       /\ UNCHANGED <<sel_ctrl, thec64_nav_idx, save_path, browser>>
  ELSE UNCHANGED <<redo_single, cur_map, mappings, state, redo_snap, caplog,
                   sel_ctrl, thec64_nav_idx, save_path, browser>>

\* review_redo_selected leaving the channel's binding in place
review_redo_selected_bound(sel) ==
  IF sel >= 0 /\ sel < NUM_MAPPINGS
  THEN /\ redo_single' = sel
       /\ cur_map' = sel
       /\ mappings' = mappings
       /\ state' = STATE_MAPPING
       /\ redo_snap' = mappings
       /\ caplog' = <<>>
       /\ UNCHANGED <<sel_ctrl, thec64_nav_idx, save_path, browser>>
  ELSE UNCHANGED <<redo_single, cur_map, mappings, state, redo_snap, caplog,
                   sel_ctrl, thec64_nav_idx, save_path, browser>>

\* review_redo_selected, the cursor being on row sel
review_redo_selected(sel) ==
  IF sel >= 0 /\ sel < NUM_MAPPINGS
  THEN /\ redo_single' = sel
       /\ cur_map' = sel
       /\ mappings' = [mappings EXCEPT ![sel].mapped_type = MAP_NONE]
       /\ state' = STATE_MAPPING
       /\ redo_snap' = mappings
       /\ caplog' = <<>>
       /\ UNCHANGED <<sel_ctrl, thec64_nav_idx, save_path, browser>>
  ELSE UNCHANGED <<redo_single, cur_map, mappings, state, redo_snap, caplog,
                   sel_ctrl, thec64_nav_idx, save_path, browser>>

\* review_restart keeping the current channel
review_restart_keep ==
  /\ mappings' = init_mappings
  /\ cur_map' = cur_map
  /\ redo_single' = -1
  /\ state' = STATE_MAPPING
  /\ caplog' = <<>>
  /\ UNCHANGED <<sel_ctrl, thec64_nav_idx, save_path, browser, redo_snap>>

review_restart ==
  /\ mappings' = init_mappings
  /\ cur_map' = 0
  /\ redo_single' = -1
  /\ state' = STATE_MAPPING
  /\ caplog' = <<>>
  /\ UNCHANGED <<sel_ctrl, thec64_nav_idx, save_path, browser, redo_snap>>

review_save ==
  /\ browser' = browser_load(MntPath)
  /\ state' = STATE_BROWSE
  /\ UNCHANGED <<mappings, cur_map, redo_single, sel_ctrl, thec64_nav_idx, save_path,
                 caplog, redo_snap>>

\* Map Another keeping the selection
review_another_selected ==
  /\ mappings' = init_mappings
  /\ state' = STATE_DETECT
  /\ save_path' = <<>>
  /\ caplog' = <<>>
  /\ UNCHANGED <<sel_ctrl, thec64_nav_idx, cur_map, redo_single, browser, redo_snap>>

\* Map Another keeping the save path
review_another_keep ==
  /\ mappings' = init_mappings
  /\ sel_ctrl' = -1
  /\ thec64_nav_idx' = -1
  /\ state' = STATE_DETECT
  /\ save_path' = save_path
  /\ caplog' = <<>>
  /\ UNCHANGED <<cur_map, redo_single, browser, redo_snap>>

\* the Map Another branch of update_review
review_another ==
  /\ mappings' = init_mappings
  /\ sel_ctrl' = -1
  /\ thec64_nav_idx' = -1
  /\ state' = STATE_DETECT
  /\ save_path' = <<>>
  /\ caplog' = <<>>
  /\ UNCHANGED <<cur_map, redo_single, browser, redo_snap>>

\* Quit showing the final screen before the exit
review_quit_done ==
  /\ state' = STATE_DONE
  /\ UNCHANGED <<mappings, cur_map, redo_single, sel_ctrl, thec64_nav_idx, save_path, browser,
                 caplog, redo_snap>>

review_quit ==
  /\ state' = STATE_EXIT
  /\ UNCHANGED <<mappings, cur_map, redo_single, sel_ctrl, thec64_nav_idx, save_path, browser,
                 caplog, redo_snap>>

\* update_review scanning the device directory before it polls
update_review_rescan ==
  /\ state = STATE_REVIEW
  /\ pc = "loop"
  /\ ~g_quit
  /\ LET kr == read_keyboard(kbd)
         d == ReviewDispatch(NavInput, kr.key, review_sel)
     IN /\ queue' = AfterNavRead
        /\ kbd' = kr.rest
        /\ last_poll' = [from |-> state, n |-> NavInput, key |-> kr.key, row |-> review_sel, fopen |-> "",
                         drained |-> <<>>]
        /\ review_sel' = d.sel
        /\ CASE d.act = "redo" -> review_redo_selected(d.sel)
             [] d.act = "save" -> review_save
             [] d.act = "restart" -> review_restart
             [] d.act = "another" -> review_another
             [] d.act = "quit" -> review_quit
             [] OTHER -> UNCHANGED <<mappings, cur_map, redo_single, state, sel_ctrl,
                                     thec64_nav_idx, save_path, browser, caplog, redo_snap>>
  /\ controllers' = scan_controllers
  /\ open_fds' = (open_fds \ HandlesOf(controllers)) \cup HandlesOf(scan_controllers)
  /\ UNCHANGED <<mapping_str, files, pc, env_vars, g_quit, fb, num_kbd_fds, unit_vars, sys_vars>>

update_review ==
  /\ state = STATE_REVIEW
  /\ pc = "loop"
  /\ ~g_quit
  /\ LET kr == read_keyboard(kbd)
         d == ReviewDispatch(NavInput, kr.key, review_sel)
     IN /\ queue' = AfterNavRead
        /\ kbd' = kr.rest
        /\ last_poll' = [from |-> state, n |-> NavInput, key |-> kr.key, row |-> review_sel, fopen |-> "",
                         drained |-> <<>>]
        /\ review_sel' = d.sel
        /\ CASE d.act = "redo" -> review_redo_selected(d.sel)
             [] d.act = "save" -> review_save
             [] d.act = "restart" -> review_restart
             [] d.act = "another" -> review_another
             [] d.act = "quit" -> review_quit
             [] OTHER -> UNCHANGED <<mappings, cur_map, redo_single, state, sel_ctrl,
                                     thec64_nav_idx, save_path, browser, caplog, redo_snap>>
  /\ UNCHANGED <<controllers, mapping_str, files, pc, env_vars, run_vars, unit_vars, sys_vars>>

(***************************************************************************)
(* The duplicate column of the review screen                               *)
(***************************************************************************)
\* the comparison of render_review without the hat mask
SameAssignment_nomask(mj, mi) ==
  /\ mj.mapped_type = mi.mapped_type
  /\ mj.mapped_index = mi.mapped_index

\* the comparison render_review makes between entry mj and the row's entry mi
SameAssignment(mj, mi) ==
  /\ mj.mapped_type = mi.mapped_type
  /\ mj.mapped_index = mi.mapped_index
  /\ (mi.mapped_type # MAP_HAT \/ mj.hat_mask = mi.hat_mask)

\* has_dupes: the first pass over the pairs i < j, i bound
has_dupes(maps) ==
  \E i \in 0..(NUM_MAPPINGS - 1) :
    /\ maps[i].mapped_type # MAP_NONE
    /\ \E j \in (i + 1)..(NUM_MAPPINGS - 1) : SameAssignment(maps[j], maps[i])

\* dups of row i: the channels whose labels are drawn in the row's duplicate
\* column, in the order they are appended; the column is drawn when not empty
dups(maps, i) ==
  IF has_dupes(maps) /\ maps[i].mapped_type # MAP_NONE
  THEN SelectSeq([k \in 1..NUM_MAPPINGS |-> k - 1],
                 LAMBDA j : j # i /\ SameAssignment(maps[j], maps[i]))
  ELSE <<>>

(***************************************************************************)
(* State: directory browser                                                *)
(***************************************************************************)
\* the cursor move of update_browse, its clamp and the scroll
BrowseMove(b, dy) ==
  LET s0 == b.selected + dy
      s1 == IF s0 < 0 THEN 0 ELSE s0
      s2 == IF s1 >= b.count THEN b.count - 1 ELSE s1
      visible == 18
      sc1 == IF s2 < b.scroll THEN s2 ELSE b.scroll
      sc2 == IF s2 >= sc1 + visible THEN s2 - visible + 1 ELSE sc1
  IN [b EXCEPT !.selected = s2, !.scroll = sc2]

\* update_browse recording the save path whether or not the file opened
update_browse_record(fopen_ok) ==
  /\ state = STATE_BROWSE
  /\ pc = "loop"
  /\ ~g_quit
  /\ LET c == Controller[NodeOf(sel_ctrl)]
         n == NavInput
         kr == read_keyboard(kbd)
         key == kr.key
         dy == IF key = KEY_DOWN THEN 1 ELSE IF key = KEY_UP THEN -1 ELSE n.dy
         btn_a == n.btn_a \/ key = KEY_ENTER
         btn_b == n.btn_b \/ key = KEY_LEFT \/ key = KEY_BACKSPACE
         btn_start == n.btn_start \/ key = KEY_Q \/ key = KEY_ESC
         b1 == IF dy # 0 THEN BrowseMove(browser, dy) ELSE browser
         e == BrowserEntries(b1.path)[b1.selected + 1]
         enter == btn_a /\ b1.count > 0
         export == enter /\ e.name # DotDot /\ ~e.is_dir
         b2 == IF ~enter \/ export THEN b1
               ELSE IF e.name = DotDot THEN browser_load(ParentPath(b1.path))
               ELSE browser_load(ChildPath(b1.path, e.name))
         b3 == IF btn_b THEN browser_load(ParentPath(b2.path)) ELSE b2
         line == build_mapping_string(c, mappings)
         filepath == ExportFilePath(b1.path, c.guid)
     IN /\ queue' = AfterNavRead
        /\ kbd' = kr.rest
        /\ last_poll' = [from |-> state, n |-> n, key |-> key, row |-> browser.selected,
                         fopen |-> IF (~got_ctrl(n) /\ key = 0) \/ ~export THEN ""
                                   ELSE IF fopen_ok THEN "ok" ELSE "failed",
                         drained |-> <<>>]
        /\ IF ~got_ctrl(n) /\ key = 0
           THEN UNCHANGED <<browser, mapping_str, files, save_path, state>>
           ELSE /\ browser' = b3
                /\ mapping_str' = IF export THEN line ELSE mapping_str
                /\ files' = IF export /\ fopen_ok
                            THEN {f \in files : f.path # filepath}
                                   \cup {[path |-> filepath, content |-> line \o <<"\n">>]}
                            ELSE files
                /\ save_path' = IF export THEN filepath ELSE save_path
                /\ state' = IF (export /\ fopen_ok) \/ btn_start THEN STATE_REVIEW ELSE state
  /\ UNCHANGED <<controllers, sel_ctrl, thec64_nav_idx, mappings, cur_map, redo_single, review_sel,
                 pc, env_vars, caplog, redo_snap, run_vars, unit_vars, sys_vars>>

\* update_browse; fopen_ok says whether fopen(filepath, "w") succeeds
update_browse(fopen_ok) ==
  /\ state = STATE_BROWSE
  /\ pc = "loop"
  /\ ~g_quit
  /\ LET c == Controller[NodeOf(sel_ctrl)]
         n == NavInput
         kr == read_keyboard(kbd)
         key == kr.key
         dy == IF key = KEY_DOWN THEN 1 ELSE IF key = KEY_UP THEN -1 ELSE n.dy
         btn_a == n.btn_a \/ key = KEY_ENTER
         btn_b == n.btn_b \/ key = KEY_LEFT \/ key = KEY_BACKSPACE
         btn_start == n.btn_start \/ key = KEY_Q \/ key = KEY_ESC
         b1 == IF dy # 0 THEN BrowseMove(browser, dy) ELSE browser
         e == BrowserEntries(b1.path)[b1.selected + 1]
         enter == btn_a /\ b1.count > 0
         export == enter /\ e.name # DotDot /\ ~e.is_dir
         b2 == IF ~enter \/ export THEN b1
               ELSE IF e.name = DotDot THEN browser_load(ParentPath(b1.path))
               ELSE browser_load(ChildPath(b1.path, e.name))
         b3 == IF btn_b THEN browser_load(ParentPath(b2.path)) ELSE b2
         line == build_mapping_string(c, mappings)
         filepath == ExportFilePath(b1.path, c.guid)
     IN /\ queue' = AfterNavRead
        /\ kbd' = kr.rest
        /\ last_poll' = [from |-> state, n |-> n, key |-> key, row |-> browser.selected,
                         fopen |-> IF (~got_ctrl(n) /\ key = 0) \/ ~export THEN ""
                                   ELSE IF fopen_ok THEN "ok" ELSE "failed",
                         drained |-> <<>>]
        /\ IF ~got_ctrl(n) /\ key = 0
           THEN UNCHANGED <<browser, mapping_str, files, save_path, state>>
           ELSE /\ browser' = b3
                /\ mapping_str' = IF export THEN line ELSE mapping_str
                /\ files' = IF export /\ fopen_ok
                            THEN {f \in files : f.path # filepath}
                                   \cup {[path |-> filepath, content |-> line \o <<"\n">>]}
                            ELSE files
                /\ save_path' = IF export /\ fopen_ok THEN filepath ELSE save_path
                /\ state' = IF (export /\ fopen_ok) \/ btn_start THEN STATE_REVIEW ELSE state
  /\ UNCHANGED <<controllers, sel_ctrl, thec64_nav_idx, mappings, cur_map, redo_single, review_sel,
                 pc, env_vars, caplog, redo_snap, run_vars, unit_vars, sys_vars>>

(***************************************************************************)
(* State: done                                                             *)
(***************************************************************************)
\* a read loop that returns at the first key-down event: whether one was read,
\* and the events left unread
UntilPress(q) ==
  LET hits == {i \in 1..Len(q) : IsPress(q[i])}
  IN IF hits = {} THEN [found |-> FALSE, rest |-> <<>>]
     ELSE LET first == CHOOSE i \in hits : \A j \in hits : i <= j
          IN [found |-> TRUE, rest |-> SubSeq(q, first + 1, Len(q))]

\* update_done, the handler main dispatches to in state DONE.  No handler
\* assigns STATE_DONE, so main never takes this case and the handler is not a
\* step of the loop below.
update_done ==
  /\ state = STATE_DONE
  /\ pc = "loop"
  /\ ~g_quit
  /\ LET sel == NodeOf(sel_ctrl)
         a == UntilPress(queue[sel])
         q1 == [queue EXCEPT ![sel] = a.rest]
         nav == thec64_nav_idx >= 0 /\ ~a.found
         b == IF nav THEN UntilPress(q1[NodeOf(thec64_nav_idx)]) ELSE [found |-> FALSE, rest |-> <<>>]
     IN /\ queue' = IF nav THEN [q1 EXCEPT ![NodeOf(thec64_nav_idx)] = b.rest] ELSE q1
        /\ state' = IF a.found \/ b.found THEN STATE_EXIT ELSE state
  /\ UNCHANGED <<controllers, sel_ctrl, thec64_nav_idx, mappings, cur_map, redo_single, review_sel,
                 save_path, mapping_str, browser, kbd, files, pc, env_vars, caplog, redo_snap,
                 last_poll, run_vars, unit_vars, sys_vars>>

(***************************************************************************)
(* The operator and the devices                                            *)
(***************************************************************************)
PadNode == 1
JoyNode == 2

\* the raw code of the pad button with logical index idx
PadButtonCode(idx) ==
  CHOOSE code \in DeviceNodes[PadNode].keybits : Controller[PadNode].caps.btn_map[code] = idx

NumPadButtons == Cardinality(DeviceNodes[PadNode].keybits)

\* the operator follows the prompt: while channel k is asked for, the button with
\* index k; otherwise button 0 (confirm, once channel 0 is bound to it)
OperatorButton == IF state = STATE_MAPPING THEN cur_map % NumPadButtons ELSE 0

\* the handle of device node d is open: events reach its queue
Open(d) ==
  /\ state # STATE_EXIT
  /\ <<"event", d>> \in open_fds
  /\ \E i \in 1..Len(controllers) : controllers[i] = d

Emit(d, ev) ==
  /\ Open(d)
  /\ Len(queue[d]) < MaxQueue
  /\ queue' = [queue EXCEPT ![d] = Append(@, ev)]

\* the operator presses the prompted button of the pad (a second press event
\* before the next channel is prompted is a contact bounce)
PadPress ==
  /\ Emit(PadNode, <<EV_KEY, PadButtonCode(OperatorButton), 1>>)
  /\ UNCHANGED <<app_vars, kbd, files, pc, env_vars, caplog, redo_snap, last_poll, run_vars, unit_vars, sys_vars>>

\* the operator releases the button
PadRelease ==
  /\ Emit(PadNode, <<EV_KEY, PadButtonCode(OperatorButton), 0>>)
  /\ UNCHANGED <<app_vars, kbd, files, pc, env_vars, caplog, redo_snap, last_poll, run_vars, unit_vars, sys_vars>>

\* the operator presses another button than the prompted one: the one before it
\* (while a channel is prompted this is a late bounce of the previous capture)
PadOther ==
  /\ extras < MaxExtra
  /\ Emit(PadNode, <<EV_KEY, PadButtonCode((OperatorButton + NumPadButtons - 1) % NumPadButtons), 1>>)
  /\ extras' = extras + 1
  /\ UNCHANGED <<app_vars, kbd, files, pc, caplog, redo_snap, last_poll, run_vars, unit_vars, sys_vars>>

\* hat left, stick fully right
PadAnalogEvents == {<<EV_ABS, ABS_HAT0X, -1>>, <<EV_ABS, ABS_X, 32767>>}

PadAnalog(ev) ==
  /\ extras < MaxExtra
  /\ Emit(PadNode, ev)
  /\ extras' = extras + 1
  /\ UNCHANGED <<app_vars, kbd, files, pc, caplog, redo_snap, last_poll, run_vars, unit_vars, sys_vars>>

\* fire (confirm), Menu 2 (back), Menu 4 (start), stick down
JoyEvents == {<<EV_KEY, BTN_TRIGGER, 1>>, <<EV_KEY, BTN_PINKIE, 1>>, <<EV_KEY, BTN_BASE2, 1>>,
              <<EV_ABS, ABS_Y, 255>>}

JoyInput(ev) ==
  /\ extras < MaxExtra
  /\ Emit(JoyNode, ev)
  /\ extras' = extras + 1
  /\ UNCHANGED <<app_vars, kbd, files, pc, caplog, redo_snap, last_poll, run_vars, unit_vars, sys_vars>>

KbdKeys == {KEY_UP, KEY_DOWN, KEY_LEFT, KEY_RIGHT, KEY_ENTER, KEY_1, KEY_2, KEY_3, KEY_4, KEY_Q}

KeyPress(key) ==
  /\ state # STATE_EXIT
  /\ <<"kbd", 0>> \in open_fds
  /\ extras < MaxExtra
  /\ Len(kbd) < MaxQueue
  /\ kbd' = Append(kbd, <<EV_KEY, key, 1>>)
  /\ extras' = extras + 1
  /\ UNCHANGED <<app_vars, queue, files, pc, caplog, redo_snap, last_poll, run_vars, unit_vars, sys_vars>>

\* TickMs pass while the wizard waits in DETECT.  The loop polls every FRAME_MS
\* (16 ms), so by the time TickMs have passed the events queued before have been
\* read.  The clock is read by update_detect only; the time that passes in the
\* other states is counted when the wizard leaves DETECT (SessionMs).
Tick ==
  /\ state = STATE_DETECT
  /\ pc = "loop"
  /\ elapsed <= RESCAN_MS
  /\ \A i \in 1..Len(controllers) : queue[controllers[i]] = <<>>
  /\ elapsed' = elapsed + TickMs
  /\ UNCHANGED <<app_vars, queue, kbd, files, pc, env_vars, caplog, redo_snap, last_poll,
                 run_vars, unit_vars, dev_dir>>

\* the device of node d is plugged in: its entry appears in /dev/input
Plug(d) ==
  /\ d \notin dev_dir
  /\ state # STATE_EXIT
  /\ dev_dir' = dev_dir \cup {d}
  /\ UNCHANGED <<app_vars, queue, kbd, files, pc, env_vars, caplog, redo_snap, last_poll,
                 run_vars, unit_vars, elapsed>>

(***************************************************************************)
(* Termination                                                             *)
(***************************************************************************)
\* SIGINT or SIGTERM is delivered, at any point of an iteration
sig_handler ==
  /\ pc # "exit"
  /\ ~g_quit
  /\ extras < MaxExtra
  /\ g_quit' = TRUE
  /\ extras' = extras + 1
  /\ UNCHANGED <<app_vars, queue, kbd, files, pc, caplog, redo_snap, last_poll,
                 fb, num_kbd_fds, open_fds, unit_vars, sys_vars>>

\* main leaving the loop without closing the keyboard handles
main_exit_leak ==
  /\ pc = "loop"
  /\ state = STATE_EXIT \/ g_quit
  /\ pc' = "exit"
  /\ fb' = "black"
  /\ controllers' = <<>>
  /\ open_fds' = open_fds \ HandlesOf(controllers)
  /\ num_kbd_fds' = 0
  /\ UNCHANGED <<state, sel_ctrl, thec64_nav_idx, mappings, cur_map, redo_single, review_sel,
                 save_path, mapping_str, browser, queue, kbd, files, env_vars, caplog, redo_snap,
                 last_poll, g_quit, unit_vars, sys_vars>>

\* main from the loop condition that fails to its return: the display is
\* restored to black, close_controllers, close_keyboards
main_exit ==
  /\ pc = "loop"
  /\ state = STATE_EXIT \/ g_quit
  /\ pc' = "exit"
  /\ fb' = "black"
  /\ controllers' = <<>>
  /\ open_fds' = (open_fds \ HandlesOf(controllers)) \ {<<"kbd", 0>>}
  /\ num_kbd_fds' = 0
  /\ UNCHANGED <<state, sel_ctrl, thec64_nav_idx, mappings, cur_map, redo_single, review_sel,
                 save_path, mapping_str, browser, queue, kbd, files, env_vars, caplog, redo_snap,
                 last_poll, g_quit, unit_vars, sys_vars>>

(***************************************************************************)
(* The main loop                                                           *)
(***************************************************************************)
Next ==
  \/ update_detect(rescan_due)
  \/ Tick
  \/ update_mapping_poll
  \/ update_mapping_settle
  \/ update_review
  \/ \E fopen_ok \in BOOLEAN : update_browse(fopen_ok)
  \/ PadPress
  \/ PadRelease
  \/ PadOther
  \/ \E ev \in PadAnalogEvents : PadAnalog(ev)
  \/ \E ev \in JoyEvents : JoyInput(ev)
  \/ \E key \in KbdKeys : KeyPress(key)
  \/ sig_handler
  \/ main_exit

Spec == Init /\ [][Next]_vars

\* the steps main's while loop takes by itself: the handler of the current
\* state, and the exit once the loop condition fails
main_loop ==
  \/ update_detect(rescan_due)
  \/ update_mapping_poll
  \/ update_mapping_settle
  \/ update_review
  \/ \E fopen_ok \in BOOLEAN : update_browse(fopen_ok)
  \/ main_exit

\* the same runs with the loop kept running: main iterates every FRAME_MS until
\* the loop condition fails, and the clock advances.  Nothing obliges the
\* operator to press anything or a signal to arrive.
SpecLoop ==
  /\ Init
  /\ [][Next]_vars
  /\ WF_vars(main_loop)
  /\ WF_vars(Tick)

\* runs in which the tool is started with the gamepad alone and THEJOYSTICK
\* is plugged in at any time, during a mapping session included
InitSession == main_start({PadNode})

NextSession ==
  \/ Next
  \/ Plug(JoyNode)

SpecSession == InitSession /\ [][NextSession]_vars

(***************************************************************************)
(* Runs that start in a menu.  The wizard has selected the gamepad and     *)
(* captured its buttons 0..9 in order; the cursor has been moved to any    *)
(* row by cursor keys, and the line may have been exported to /mnt.        *)
(***************************************************************************)
\* the bindings after buttons 0..9 were captured in order
InOrderMappings ==
  [k \in 0..(NUM_MAPPINGS - 1) |-> [mapped_type |-> MAP_BUTTON, mapped_index |-> k, hat_mask |-> 0]]

InOrderLog == [k \in 1..NUM_MAPPINGS |-> InOrderMappings[k - 1]]

\* the state reached from Init by the in-order capture
AfterCapture ==
  /\ dev_dir = 1..NumDevices
  /\ elapsed = SessionMs
  /\ controllers = scan_controllers
  /\ sel_ctrl = 0
  /\ thec64_nav_idx = find_thec64_nav(scan_controllers, 0)
  /\ cur_map = NUM_MAPPINGS
  /\ redo_single = -1
  /\ mapping_str = build_mapping_string(Controller[PadNode], InOrderMappings)
  /\ queue = [d \in 1..NumDevices |-> <<>>]
  /\ kbd = <<>>
  /\ pc = "loop"
  /\ extras = 0
  /\ redo_snap = <<>>
  /\ last_poll = NoPoll
  /\ g_quit = FALSE
  /\ fb = "frame"
  /\ num_kbd_fds = 1
  /\ open_fds = HandlesOf(scan_controllers) \cup {<<"kbd", 0>>}
  /\ arg = NoArg
  /\ res = NoRes
  /\ \E saved \in BOOLEAN :
       LET filepath == ExportFilePath(MntPath, Controller[PadNode].guid)
       IN IF saved
          THEN /\ save_path = filepath
               /\ files = {[path |-> filepath, content |-> mapping_str \o <<"\n">>]}
          ELSE /\ save_path = <<>>
               /\ files = {}

InitReview ==
  /\ AfterCapture
  /\ mappings = InOrderMappings
  /\ caplog = InOrderLog
  /\ state = STATE_REVIEW
  /\ review_sel \in 0..(REVIEW_TOTAL_ITEMS - 1)
  /\ browser = IF save_path = <<>>
               THEN [path |-> <<>>, count |-> 0, selected |-> 0, scroll |-> 0]
               ELSE [browser_load(MntPath) EXCEPT !.selected = 2]

SpecReview == InitReview /\ [][Next]_vars

\* the directories of the file system
Directories == {RootPath, MntPath, ChildPath(MntPath, SubDirs(MntPath)[1])}

\* the bindings after channel 9 was then redone and bound to hat 0, left; the
\* line in mapping_str is not rebuilt by a redo
RedoneMappings ==
  [InOrderMappings EXCEPT ![9] = [mapped_type |-> MAP_HAT, mapped_index |-> 0, hat_mask |-> 8]]

\* the bindings after further redos: y on the button of x, a on axis 2, back and
\* leftx both on hat 0 left, lefty on hat 0 up
DuplicateMappings ==
  [InOrderMappings EXCEPT ![3] = [mapped_type |-> MAP_BUTTON, mapped_index |-> 2, hat_mask |-> 0],
                          ![4] = [mapped_type |-> MAP_AXIS, mapped_index |-> 2, hat_mask |-> 0],
                          ![6] = [mapped_type |-> MAP_HAT, mapped_index |-> 0, hat_mask |-> 8],
                          ![8] = [mapped_type |-> MAP_HAT, mapped_index |-> 0, hat_mask |-> 8],
                          ![9] = [mapped_type |-> MAP_HAT, mapped_index |-> 0, hat_mask |-> 1]]

\* Save was confirmed and the browser cursor moved, after the in-order capture,
\* after the redo of channel 9 or after the redos that left duplicates
InitBrowse ==
  /\ AfterCapture
  /\ \/ /\ mappings = InOrderMappings
        /\ caplog = InOrderLog
     \/ /\ mappings \in {RedoneMappings, DuplicateMappings}
        /\ caplog = <<>>
  /\ state = STATE_BROWSE
  /\ review_sel = REVIEW_ACTION_SAVE
  /\ \E path \in Directories :
       \E sel \in 0..(Len(BrowserEntries(path)) - 1) :
         browser = [browser_load(path) EXCEPT !.selected = sel]

SpecBrowse == InitBrowse /\ [][Next]_vars

(***************************************************************************)
(* Runs of the detect phase in which the gamepad is plugged in after the   *)
(* tool was started.  Time passes and the main loop keeps polling.         *)
(***************************************************************************)
\* the tool is started with THEJOYSTICK alone or with no device at all
InitPlug == \E dir \in {{}, {JoyNode}} : main_start(dir)

NextPlug ==
  \/ update_detect(rescan_due)
  \/ Tick
  \/ Plug(PadNode)
  \/ PadPress
  \/ PadRelease
  \/ \E ev \in JoyEvents : JoyInput(ev)

SpecPlug ==
  /\ InitPlug
  /\ [][NextPlug]_vars
  /\ WF_vars(Tick)
  /\ WF_vars(update_detect(rescan_due))

(***************************************************************************)
(* Runs of one capture: the gamepad is selected, a channel is prompted and *)
(* the gamepad has queued a burst of events since the last drain.          *)
(***************************************************************************)
\* the longest burst
MaxBurst == 3

\* events of the gamepad: a press, a release and an autorepeat of button 0, a
\* key code the device does not have, the sticks beyond, below and at the
\* threshold, an axis code the device does not have, hat 0 in its four
\* directions and released, hats 1 and 3, and a SYN report
CaptureEvents ==
  {<<EV_KEY, BTN_GAMEPAD, 1>>, <<EV_KEY, BTN_GAMEPAD, 0>>, <<EV_KEY, BTN_GAMEPAD + 1, 2>>,
   <<EV_KEY, 30, 1>>,
   <<EV_ABS, ABS_Y, 32767>>, <<EV_ABS, ABS_X, -32768>>, <<EV_ABS, ABS_X, 26214>>,
   <<EV_ABS, 40, 5000>>,
   <<EV_ABS, ABS_HAT0X, -1>>, <<EV_ABS, ABS_HAT0X, 1>>, <<EV_ABS, ABS_HAT0X + 1, -1>>,
   <<EV_ABS, ABS_HAT0X + 1, 1>>, <<EV_ABS, ABS_HAT0X, 0>>,
   <<EV_ABS, ABS_HAT0X + 2, 1>>, <<EV_ABS, ABS_HAT3Y, -1>>,
   <<0, 0, 0>>}

Bursts == UNION {[1..n -> CaptureEvents] : n \in 0..MaxBurst}

\* update_detect has selected the gamepad (channel 0 is prompted), or
\* review_redo_selected has cleared channel 4 of the in-order bindings, or
\* channel 9 after an earlier redo had bound it to a hat
InitCapture ==
  /\ state = STATE_MAPPING
  /\ dev_dir = 1..NumDevices
  /\ elapsed = SessionMs
  /\ controllers = scan_controllers
  /\ sel_ctrl = 0
  /\ thec64_nav_idx = find_thec64_nav(scan_controllers, 0)
  /\ \/ /\ mappings = init_mappings
        /\ cur_map = 0
        /\ redo_single = -1
        /\ review_sel = 0
        /\ mapping_str = <<>>
        /\ redo_snap = <<>>
     \/ \E m \in {<<InOrderMappings, 4>>, <<RedoneMappings, 9>>} :
          /\ mappings = [m[1] EXCEPT ![m[2]].mapped_type = MAP_NONE]
          /\ cur_map = m[2]
          /\ redo_single = m[2]
          /\ review_sel = m[2]
          /\ mapping_str = build_mapping_string(Controller[PadNode], InOrderMappings)
          /\ redo_snap = m[1]
  /\ save_path = <<>>
  /\ browser = [path |-> <<>>, count |-> 0, selected |-> 0, scroll |-> 0]
  /\ queue \in {[d \in 1..NumDevices |-> IF d = PadNode THEN b ELSE <<<<EV_KEY, BTN_TRIGGER, 1>>>>] :
                  b \in Bursts}
  /\ kbd = <<>>
  /\ files = {}
  /\ pc = "loop"
  /\ extras = 0
  /\ caplog = <<>>
  /\ last_poll = NoPoll
  /\ g_quit = FALSE
  /\ fb = "frame"
  /\ num_kbd_fds = 1
  /\ open_fds = HandlesOf(scan_controllers) \cup {<<"kbd", 0>>}
  /\ arg = NoArg
  /\ res = NoRes

NextCapture ==
  \/ update_mapping_poll
  \/ update_mapping_settle

SpecCapture == InitCapture /\ [][NextCapture]_vars

(***************************************************************************)
(* Runs of one menu poll: the capture is over, the wizard is in REVIEW or  *)
(* in BROWSE and the gamepad, THEJOYSTICK and the keyboard have queued     *)
(* events since the last poll.                                             *)
(***************************************************************************)
\* the longest burst of the gamepad
MaxNavBurst == 2

\* bindings with leftx on axis 0 and lefty on axis 1
StickMappings ==
  [InOrderMappings EXCEPT ![8] = [mapped_type |-> MAP_AXIS, mapped_index |-> 0, hat_mask |-> 0],
                          ![9] = [mapped_type |-> MAP_AXIS, mapped_index |-> 1, hat_mask |-> 0]]

\* bindings with leftx on hat 0 left and lefty on hat 0 up (a d-pad)
DpadMappings ==
  [InOrderMappings EXCEPT ![8] = [mapped_type |-> MAP_HAT, mapped_index |-> 0, hat_mask |-> 8],
                          ![9] = [mapped_type |-> MAP_HAT, mapped_index |-> 0, hat_mask |-> 1]]

\* events of the gamepad: presses of buttons 0, 5, 7 and 2, a release, the
\* sticks down, up and right, hat 0 left, down and up
NavEvents ==
  {<<EV_KEY, BTN_GAMEPAD, 1>>, <<EV_KEY, BTN_GAMEPAD + 5, 1>>, <<EV_KEY, BTN_GAMEPAD + 7, 1>>,
   <<EV_KEY, BTN_GAMEPAD + 2, 1>>, <<EV_KEY, BTN_GAMEPAD, 0>>,
   <<EV_ABS, ABS_Y, 32767>>, <<EV_ABS, ABS_Y, -32768>>, <<EV_ABS, ABS_X, 32767>>,
   <<EV_ABS, ABS_HAT0X, -1>>, <<EV_ABS, ABS_HAT0X + 1, 1>>, <<EV_ABS, ABS_HAT0X + 1, -1>>}

NavBursts == UNION {[1..n -> NavEvents] : n \in 0..MaxNavBurst}

\* events of THEJOYSTICK: nothing, stick up, fire, stick down and then Menu 2
JoyBursts ==
  {<<>>, <<<<EV_ABS, ABS_Y, 0>>>>, <<<<EV_KEY, BTN_TRIGGER, 1>>>>,
   <<<<EV_ABS, ABS_Y, 255>>, <<EV_KEY, BTN_PINKIE, 1>>>>}

\* events of the keyboard: nothing, Up, Down and then Up, Enter, 2 and then
\* Down, a release and then Right
KbdBursts ==
  {<<>>, <<<<EV_KEY, KEY_UP, 1>>>>, <<<<EV_KEY, KEY_DOWN, 1>>, <<EV_KEY, KEY_UP, 1>>>>,
   <<<<EV_KEY, KEY_ENTER, 1>>>>, <<<<EV_KEY, KEY_2, 1>>, <<EV_KEY, KEY_DOWN, 1>>>>,
   <<<<EV_KEY, 30, 0>>, <<EV_KEY, KEY_RIGHT, 1>>>>}

\* the sequential capture has bound the channels in order, with the sticks or
\* with the d-pad on leftx and lefty; the cursor is on a channel row or on
\* Restart, or Save was confirmed
InitNav ==
  /\ dev_dir = 1..NumDevices
  /\ elapsed = SessionMs
  /\ controllers = scan_controllers
  /\ sel_ctrl = 0
  /\ thec64_nav_idx = find_thec64_nav(scan_controllers, 0)
  /\ mappings \in {InOrderMappings, StickMappings, DpadMappings}
  /\ caplog = [k \in 1..NUM_MAPPINGS |-> mappings[k - 1]]
  /\ mapping_str = build_mapping_string(Controller[PadNode], mappings)
  /\ cur_map = NUM_MAPPINGS
  /\ redo_single = -1
  /\ \/ /\ state = STATE_REVIEW
        /\ review_sel \in {5, REVIEW_ACTION_RESTART}
        /\ browser = [path |-> <<>>, count |-> 0, selected |-> 0, scroll |-> 0]
     \/ /\ state = STATE_BROWSE
        /\ review_sel = REVIEW_ACTION_SAVE
        /\ browser = browser_load(MntPath)
  /\ save_path = <<>>
  /\ files = {}
  /\ queue \in {[d \in 1..NumDevices |-> IF d = PadNode THEN b ELSE j] :
                  b \in NavBursts, j \in JoyBursts}
  /\ kbd \in KbdBursts
  /\ pc = "loop"
  /\ extras = 0
  /\ redo_snap = <<>>
  /\ last_poll = NoPoll
  /\ g_quit = FALSE
  /\ fb = "frame"
  /\ num_kbd_fds = 1
  /\ open_fds = HandlesOf(scan_controllers) \cup {<<"kbd", 0>>}
  /\ arg = NoArg
  /\ res = NoRes

NextNav ==
  \/ update_review
  \/ \E fopen_ok \in BOOLEAN : update_browse(fopen_ok)

SpecNav == InitNav /\ [][NextNav]_vars

(***************************************************************************)
(* Runs that examine one function of the program on inputs drawn from      *)
(* bounded sets: the wizard is as main leaves it before the loop, arg      *)
(* holds the input and the one step of the run applies the function.       *)
(***************************************************************************)
\* capture fields a channel can hold: unset, unset with the index of an earlier
\* capture left behind by a redo, buttons, axes, hat directions
EntryPairs ==
  {<<Unmapped, [mapped_type |-> MAP_BUTTON, mapped_index |-> 3, hat_mask |-> 0]>>,
   <<[mapped_type |-> MAP_AXIS, mapped_index |-> 1, hat_mask |-> 0],
     [mapped_type |-> MAP_HAT, mapped_index |-> 0, hat_mask |-> 4]>>,
   <<[mapped_type |-> MAP_BUTTON, mapped_index |-> 11, hat_mask |-> 0],
     [mapped_type |-> MAP_HAT, mapped_index |-> 1, hat_mask |-> 8]>>,
   <<[mapped_type |-> MAP_NONE, mapped_index |-> 5, hat_mask |-> 2],
     [mapped_type |-> MAP_AXIS, mapped_index |-> 0, hat_mask |-> 0]>>}

\* bindings of the 10 channels drawn from one pair of capture fields
PairedMappings ==
  {[i \in 0..(NUM_MAPPINGS - 1) |-> IF i \in S THEN pr[1] ELSE pr[2]] :
     S \in SUBSET (0..(NUM_MAPPINGS - 1)), pr \in EntryPairs}

SerializeArgs ==
  {[fn |-> "build_mapping_string", node |-> d, maps |-> maps] :
     d \in 1..NumDevices, maps \in PairedMappings}

\* the capture fields of EntryPairs
Entries == {pr[1] : pr \in EntryPairs} \cup {pr[2] : pr \in EntryPairs}

\* two sets of bindings: one channel of all-unset or of the in-order bindings
\* rebound, and that set with one channel rebound again
SerializeTwiceArgs ==
  {[fn |-> "build_mapping_string twice", node |-> PadNode,
    maps |-> [base EXCEPT ![i] = e1],
    maps2 |-> [base EXCEPT ![i] = e1, ![j] = e2]] :
     base \in {init_mappings, InOrderMappings},
     i \in 0..(NUM_MAPPINGS - 1), j \in 0..(NUM_MAPPINGS - 1), e1 \in Entries, e2 \in Entries}

\* values of a 16-bit field of struct input_id: 0x0000, 0x0003, 0x000f, 0x00ff,
\* 0x0100, 0x045e, 0xabcd, 0xffff
Words == {0, 3, 15, 255, 256, 1118, 43981, 65535}

GuidArgs ==
  {[fn |-> "build_guid", id |-> [bustype |-> b, vendor |-> v, product |-> p, version |-> w]] :
     b \in Words, v \in Words, p \in Words, w \in Words}

\* <<minimum, maximum>> of an axis as EVIOCGABS reports them: sticks and
\* triggers of common sizes, small ranges, ranges collapsed to one value
AxisRanges ==
  {<<-32768, 32767>>, <<0, 65535>>, <<0, 1023>>, <<0, 255>>, <<-127, 127>>, <<3, 10>>,
   <<0, 5>>, <<0, 2>>, <<0, 1>>, <<-1, 1>>, <<0, 0>>, <<7, 7>>}

\* the gamepad with the range rg on its X axis
RangedPad(rg) == [PadDevice EXCEPT !.absmin[ABS_X] = rg[1], !.absmax[ABS_X] = rg[2]]

ThreshArgs == {[fn |-> "thresh", range |-> rg] : rg \in AxisRanges}

\* samples of an axis with the range rg: its ends, one step outside them, its
\* midpoint, and the values at and next to a fifth and two fifths of the range
\* on either side of the midpoint
AxisSamples(rg) ==
  LET range == rg[2] - rg[1]
      mid == CDiv(rg[1] + rg[2], 2)
  IN {rg[1] - 1, rg[1], mid, rg[2], rg[2] + 1}
       \cup {mid + s * (q + e) : s \in {-1, 1}, q \in {range \div 5, (range * 2) \div 5}, e \in {-1, 0, 1}}

SampleArgs ==
  UNION {{[fn |-> "axis sample", range |-> rg, sample |-> v] : v \in AxisSamples(rg)} :
           rg \in AxisRanges}

\* a device that answers the capability queries with the bit fields ev, key, abs
ProbeDevice(ev, key, abs) == [PadDevice EXCEPT !.evbits = ev, !.keybits = key, !.absbits = abs]

\* key codes around the ends of the two 16-code ranges: KEY_A, BTN_JOYSTICK - 1,
\* BTN_JOYSTICK, BTN_JOYSTICK + 15, BTN_GAMEPAD, BTN_GAMEPAD + 15, BTN_GAMEPAD + 16
GamepadArgs ==
  {[fn |-> "is_gamepad", dev |-> ProbeDevice(ev, key, abs)] :
     ev \in SUBSET {EV_KEY, EV_ABS},
     key \in SUBSET {30, BTN_JOYSTICK - 1, BTN_JOYSTICK, BTN_JOYSTICK + 15,
                     BTN_GAMEPAD, BTN_GAMEPAD + 15, BTN_GAMEPAD + 16},
     abs \in SUBSET {ABS_X, ABS_Y, ABS_HAT0X}}

\* key codes below and at the ends of the two scan ranges (KEY_A, BTN_MISC,
\* BTN_JOYSTICK - 1, BTN_JOYSTICK, BTN_GAMEPAD, KEY_MAX - 1); axis codes below,
\* inside and above the hat range (ABS_Y, ABS_HAT0X, ABS_HAT0Y, ABS_HAT1X,
\* ABS_PRESSURE)
EnumerateArgs ==
  {[fn |-> "enumerate_buttons_axes", dev |-> ProbeDevice({EV_KEY, EV_ABS}, key, abs)] :
     key \in SUBSET {30, BTN_MISC, BTN_JOYSTICK - 1, BTN_JOYSTICK, BTN_GAMEPAD, KEY_MAX - 1},
     abs \in SUBSET {ABS_Y, ABS_HAT0X, ABS_HAT0X + 1, ABS_HAT0X + 2, ABS_HAT3Y + 1}}

\* a keyboard, and a gamepad that has buttons and no axes
KbdDevice == ProbeDevice({EV_KEY}, {30}, {})
KeyPadDevice == ProbeDevice({EV_KEY}, {BTN_GAMEPAD}, {})

\* the entries of /dev/input: the gamepad, a keyboard, the buttons-only pad,
\* an entry that is not named event<N>, and devices on which one call fails, or
\* every call from one on (the device is unplugged during the scan)
EntryKinds ==
  {DirEntry(TRUE, PadDevice, {}), DirEntry(TRUE, KbdDevice, {}), DirEntry(TRUE, KeyPadDevice, {}),
   DirEntry(FALSE, PadDevice, {}),
   DirEntry(TRUE, PadDevice, {"open"}),
   DirEntry(TRUE, PadDevice, {"EVIOCGBIT(0)"}),
   DirEntry(TRUE, PadDevice, {"EVIOCGBIT(EV_ABS)"}),
   DirEntry(TRUE, KeyPadDevice, {"EVIOCGBIT(EV_KEY)"}),
   DirEntry(TRUE, PadDevice, {"EVIOCGID"}),
   DirEntry(TRUE, PadDevice, {"EVIOCGNAME"}),
   DirEntry(TRUE, PadDevice, {"enumerate"}),
   DirEntry(TRUE, PadDevice, {"EVIOCGBIT(EV_ABS)", "EVIOCGBIT(EV_KEY)", "EVIOCGID", "EVIOCGNAME",
                              "enumerate"}),
   DirEntry(TRUE, PadDevice, {"EVIOCGNAME", "enumerate"})}

\* the longest directory of which every content is drawn
MaxDir == 2

\* nine gamepads, and ten with a keyboard before them and one that fails
\* EVIOCGID among them
NinePads == [k \in 1..(MAX_CONTROLLERS + 1) |-> DirEntry(TRUE, PadDevice, {})]
MixedDir ==
  <<DirEntry(TRUE, KbdDevice, {})>> \o SubSeq(NinePads, 1, 4)
    \o <<DirEntry(TRUE, PadDevice, {"EVIOCGID"})>> \o SubSeq(NinePads, 1, 5)

NoDir == [ok |-> FALSE, entries |-> <<>>]

FirstDirs ==
  {[ok |-> TRUE, entries |-> es] : es \in UNION {[1..n -> EntryKinds] : n \in 0..MaxDir}}
    \cup {[ok |-> TRUE, entries |-> NinePads], [ok |-> TRUE, entries |-> MixedDir], NoDir}

SecondDirs ==
  {NoDir, [ok |-> TRUE, entries |-> <<>>], [ok |-> TRUE, entries |-> <<DirEntry(TRUE, PadDevice, {})>>],
   [ok |-> TRUE, entries |-> <<DirEntry(TRUE, PadDevice, {"EVIOCGID"}), DirEntry(TRUE, KbdDevice, {}),
                               DirEntry(TRUE, PadDevice, {}), DirEntry(TRUE, PadDevice, {"EVIOCGNAME"})>>],
   [ok |-> TRUE, entries |-> NinePads]}

ScanArgs == {[fn |-> "scan_controllers", dir1 |-> d1, dir2 |-> d2] : d1 \in FirstDirs, d2 \in SecondDirs}

\* the descriptors open when main calls scan_controllers: stdin, stdout, stderr
\* and the framebuffer's
BaseFds == 0..3

\* a gamepad that has, beside the gamepad's, the two highest key codes and the
\* two highest axis codes
BoundaryPad ==
  ProbeDevice({EV_KEY, EV_ABS}, PadDevice.keybits \cup {KEY_MAX - 1, KEY_MAX},
              PadDevice.absbits \cup {ABS_HAT3Y, ABS_MAX - 1, ABS_MAX})

\* one event of BoundaryPad: a key code with value 0 (release), 1 (press) or 2
\* (autorepeat), or an axis code with a value at rest or away from it
BoundaryEvents ==
  {<<EV_KEY, code, v>> : code \in {BTN_MISC, BTN_GAMEPAD, KEY_MAX - 1, KEY_MAX}, v \in 0..2}
    \cup {<<EV_ABS, code, v>> : code \in {ABS_X, ABS_HAT0X, ABS_HAT3Y, ABS_MAX - 1, ABS_MAX},
                              v \in {-1, 0, 1, 32767}}

\* oob: what a read outside a table yields (no index, or index 0)
LookupArgs ==
  {[fn |-> "lookups", maps |-> maps, ev |-> ev, oob |-> oob] :
     maps \in {InOrderMappings, StickMappings, DpadMappings}, ev \in BoundaryEvents,
     oob \in {-1, 0}}

\* the longest registry find_thec64_nav is applied to
MaxReg == 3

\* name and GUID of a registry entry: the two devices of the namespace, a device
\* that has THEJOYSTICK's name inside a longer one, devices that have only one
\* of the two listed GUIDs, and devices that miss the name by a letter or by
\* case, or the GUID by the product or the version number
NavKinds ==
  LET pad == build_guid(PadDevice.id)
      joy(p, v) == build_guid([bustype |-> 3, vendor |-> 7257, product |-> p, version |-> v])
  IN {[name |-> PadName, guid |-> pad],
      [name |-> JoyName, guid |-> joy(35, 272)],
      [name |-> <<"R","e","t","r","o"," ">> \o JoyName \o <<" ","2">>, guid |-> pad],
      [name |-> PadName, guid |-> joy(35, 272)],
      [name |-> PadName, guid |-> joy(36, 272)],
      [name |-> PadName, guid |-> joy(37, 272)],
      [name |-> PadName, guid |-> joy(35, 273)],
      [name |-> SubSeq(JoyName, 1, Len(JoyName) - 1), guid |-> pad],
      [name |-> <<"T","H","E","C","6","4"," ","j","o","y","s","t","i","c","k">>, guid |-> pad]}

RECURSIVE Registries(_)
Registries(n) ==
  IF n = 0 THEN {<<>>}
  ELSE {<<>>} \cup {Append(r, c) : r \in Registries(n - 1), c \in NavKinds}

\* find_thec64_nav is called by update_detect right after it has set sel_ctrl
\* to the index of a registry entry
NavArgs ==
  {[fn |-> "find_thec64_nav", ctrls |-> r, sel |-> s] :
     <<r, s>> \in {<<r, s>> \in Registries(MaxReg) \X (0..(MaxReg - 1)) : s < Len(r)}}

InitUnits ==
  /\ state = STATE_DETECT
  /\ dev_dir = 1..NumDevices
  /\ elapsed = 0
  /\ controllers = scan_controllers
  /\ sel_ctrl = -1
  /\ thec64_nav_idx = -1
  /\ mappings = init_mappings
  /\ cur_map = 0
  /\ redo_single = -1
  /\ review_sel = 0
  /\ save_path = <<>>
  /\ mapping_str = <<>>
  /\ browser = [path |-> <<>>, count |-> 0, selected |-> 0, scroll |-> 0]
  /\ queue = [d \in 1..NumDevices |-> <<>>]
  /\ kbd = <<>>
  /\ files = {}
  /\ pc = "loop"
  /\ extras = 0
  /\ caplog = <<>>
  /\ redo_snap = <<>>
  /\ last_poll = NoPoll
  /\ g_quit = FALSE
  /\ fb = "frame"
  /\ num_kbd_fds = 1
  /\ open_fds = HandlesOf(scan_controllers) \cup {<<"kbd", 0>>}
  /\ \/ arg \in SerializeArgs
     \/ arg \in SerializeTwiceArgs
     \/ arg \in GuidArgs
     \/ arg \in ThreshArgs
     \/ arg \in SampleArgs
     \/ arg \in GamepadArgs
     \/ arg \in EnumerateArgs
     \/ arg \in ScanArgs
     \/ arg \in NavArgs
     \/ arg \in LookupArgs
  /\ res = NoRes

\* the step of a run: fn is applied to arg and res holds what it returns
Returns(fn, val) ==
  /\ arg.fn = fn
  /\ res = NoRes
  /\ res' = [fn |-> fn, val |-> val]
  /\ UNCHANGED <<app_vars, queue, kbd, files, pc, env_vars, caplog, redo_snap, last_poll,
                 run_vars, arg, sys_vars>>

\* build_mapping_string for the controller of device node arg.node and the
\* bindings arg.maps
call_build_mapping_string ==
  /\ arg.fn = "build_mapping_string"
  /\ Returns("build_mapping_string", build_mapping_string(Controller[arg.node], arg.maps))

\* build_mapping_string for the same controller and two sets of bindings
call_build_mapping_string_twice ==
  /\ arg.fn = "build_mapping_string twice"
  /\ Returns("build_mapping_string twice",
             <<build_mapping_string(Controller[arg.node], arg.maps),
               build_mapping_string(Controller[arg.node], arg.maps2)>>)

call_build_guid ==
  /\ arg.fn = "build_guid"
  /\ Returns("build_guid", build_guid(arg.id))

\* the local thresh of poll_mapping_input and of read_nav_input for the X axis
\* of a controller enumerated from a device with the range arg.range
eval_thresh ==
  /\ arg.fn = "thresh"
  /\ Returns("thresh", AxisThresh(enumerate_buttons_axes(RangedPad(arg.range)), ABS_X))

\* one event of the X axis with the value arg.sample, read once by
\* poll_mapping_input for an unset entry and once by read_nav_input with leftx
\* bound to that axis
read_axis_sample ==
  /\ arg.fn = "axis sample"
  /\ LET caps == enumerate_buttons_axes(RangedPad(arg.range))
         ev == <<EV_ABS, ABS_X, arg.sample>>
     IN Returns("axis sample",
                [capture |-> poll_mapping_input(caps, <<ev>>, Unmapped),
                 nav |-> read_nav_input(caps, StickMappings, <<ev>>, <<>>)])

call_is_gamepad ==
  /\ arg.fn = "is_gamepad"
  /\ Returns("is_gamepad", is_gamepad(arg.dev))

call_enumerate_buttons_axes ==
  /\ arg.fn = "enumerate_buttons_axes"
  /\ Returns("enumerate_buttons_axes", enumerate_buttons_axes(arg.dev))

\* scan_controllers as main calls it on the directory arg.dir1, scan_keyboards
\* opening one keyboard, and the rescan of update_detect on arg.dir2
call_scan_controllers ==
  /\ arg.fn = "scan_controllers"
  /\ LET s1 == ScanHandles(<<>>, BaseFds, arg.dir1)
         kfd == LowestFree(s1.fds)
         s2 == ScanHandles(s1.reg, s1.fds \cup {kfd}, arg.dir2)
     IN Returns("scan_controllers", [first |-> s1, kbd_fd |-> kfd, second |-> s2])

\* the tables read for one event arg.ev of the gamepad BoundaryPad, by
\* poll_mapping_input and by read_nav_input under the bindings arg.maps
table_lookups ==
  /\ arg.fn = "lookups"
  /\ LET caps == enumerate_buttons_axes(BoundaryPad)
     IN Returns("lookups", [capture |-> CaptureLookups(caps, arg.ev, arg.oob),
                            nav |-> NavLookups(caps, arg.maps, arg.ev, arg.oob)])

\* find_thec64_nav on the registry arg.ctrls with sel_ctrl = arg.sel
call_find_thec64_nav ==
  /\ arg.fn = "find_thec64_nav"
  /\ Returns("find_thec64_nav", Thec64NavFrom(arg.ctrls, arg.sel, 0))

NextUnits ==
  \/ table_lookups
  \/ call_find_thec64_nav
  \/ call_scan_controllers
  \/ call_build_guid
  \/ call_is_gamepad
  \/ call_enumerate_buttons_axes
  \/ eval_thresh
  \/ read_axis_sample
  \/ call_build_mapping_string
  \/ call_build_mapping_string_twice

SpecUnits == InitUnits /\ [][NextUnits]_vars

(***************************************************************************)
(* Properties                                                              *)
(***************************************************************************)
\* the line "030000005e0400008e02000014010000,Pad,lefttrigger:b0,righttrigger:b1,
\* x:b2,y:b3,a:b4,b:b5,back:b6,start:b7,leftx:b8,lefty:b9,platform:Linux,"
InOrderLine ==
  <<"0", "3", "0", "0", "0", "0", "0", "0", "5", "e", "0", "4", "0", "0", "0", "0", "8", "e", "0", "2",
    "0", "0", "0", "0", "1", "4", "0", "1", "0", "0", "0", "0", ",", "P", "a", "d", ",", "l", "e", "f",
    "t", "t", "r", "i", "g", "g", "e", "r", ":", "b", "0", ",", "r", "i", "g", "h", "t", "t", "r", "i",
    "g", "g", "e", "r", ":", "b", "1", ",", "x", ":", "b", "2", ",", "y", ":", "b", "3", ",", "a", ":",
    "b", "4", ",", "b", ":", "b", "5", ",", "b", "a", "c", "k", ":", "b", "6", ",", "s", "t", "a", "r",
    "t", ":", "b", "7", ",", "l", "e", "f", "t", "x", ":", "b", "8", ",", "l", "e", "f", "t", "y", ":",
    "b", "9", ",", "p", "l", "a", "t", "f", "o", "r", "m", ":", "L", "i", "n", "u", "x", ",">>

\* C1: sequential capture.  In MAPPING with the redo flag clear the channels
\* below the current one hold the captures made so far, in capture order; a
\* capture binds the current channel and no other; MAPPING is left for REVIEW by
\* the step that completes the 10th capture and by no other; in REVIEW channel k
\* holds the k-th capture, and buttons 0..9 captured in order serialize as b0..b9
\* in the fixed channel order.
C1_SequentialCapture ==
  /\ [](state = STATE_MAPPING /\ redo_single < 0
          => /\ cur_map \in 0..(NUM_MAPPINGS - 1)
             /\ Len(caplog) = cur_map + (IF pc = "settle" THEN 1 ELSE 0)
             /\ \A k \in 1..Len(caplog) : mappings[k - 1] = caplog[k])
  /\ [](state = STATE_REVIEW /\ caplog # <<>>
          => /\ Len(caplog) = NUM_MAPPINGS
             /\ \A k \in 1..NUM_MAPPINGS : mappings[k - 1] = caplog[k])
  /\ [](state = STATE_REVIEW /\ caplog = InOrderLog => mapping_str = InOrderLine)
  /\ [][state = STATE_MAPPING /\ redo_single < 0 /\ caplog' # caplog
          => /\ caplog' = Append(caplog, mappings'[cur_map])
             /\ mappings'[cur_map].mapped_type # MAP_NONE
             /\ \A j \in 0..(NUM_MAPPINGS - 1) : j # cur_map => mappings'[j] = mappings[j]
             /\ state' = STATE_MAPPING /\ cur_map' = cur_map]_vars
  /\ [][state = STATE_MAPPING /\ redo_single < 0
          => /\ state' \in {STATE_MAPPING, STATE_REVIEW}
             /\ (state' = STATE_REVIEW => pc = "settle" /\ Len(caplog) = NUM_MAPPINGS)
             /\ (pc = "settle" /\ pc' = "loop"
                   => IF Len(caplog) = NUM_MAPPINGS
                      THEN state' = STATE_REVIEW
                      ELSE state' = STATE_MAPPING /\ cur_map' = cur_map + 1)]_vars

\* C1 witness: the ten buttons were captured in order and REVIEW shows the line
C1_Witness ==
  /\ state = STATE_REVIEW
  /\ review_sel = 0
  /\ caplog = InOrderLog
  /\ mappings = InOrderMappings
  /\ mapping_str = InOrderLine

\* C2: redo of one channel.  The step that leaves REVIEW for MAPPING with the
\* redo flag set clears the binding of channel k, the row of the cursor, sets the
\* redo flag to k and changes no other channel; while channel k is redone the
\* other nine channels keep the capture results they had before the redo; the
\* step that completes the next capture returns to REVIEW with the redo flag
\* clear, the other nine channels and their serialized codes being what they
\* were before the redo.
C2_RedoOneChannel ==
  /\ [][state = STATE_REVIEW /\ state' = STATE_MAPPING /\ redo_single' >= 0
          => /\ redo_single' \in 0..(NUM_MAPPINGS - 1)
             /\ redo_single' = review_sel' /\ cur_map' = redo_single'
             /\ mappings'[redo_single'].mapped_type = MAP_NONE
             /\ \A j \in 0..(NUM_MAPPINGS - 1) : j # redo_single' => mappings'[j] = mappings[j]
             /\ redo_snap' = mappings]_vars
  /\ [](state = STATE_MAPPING /\ redo_single >= 0
          => /\ cur_map = redo_single
             /\ pc = "loop" => mappings[redo_single].mapped_type = MAP_NONE
             /\ \A j \in 0..(NUM_MAPPINGS - 1) : j # redo_single => mappings[j] = redo_snap[j])
  /\ [][state = STATE_MAPPING /\ redo_single >= 0 /\ pc = "settle" /\ pc' = "loop"
          => /\ state' = STATE_REVIEW /\ redo_single' = -1
             /\ mappings'[redo_single].mapped_type # MAP_NONE
             /\ \A j \in 0..(NUM_MAPPINGS - 1) :
                  j # redo_single => /\ mappings'[j] = redo_snap[j]
                                     /\ MappingCode(mappings'[j]) = MappingCode(redo_snap[j])]_vars

\* C2 witness: back in REVIEW after channel 7 was redone and bound to another
\* input than before, the other nine channels as captured
C2_Witness ==
  /\ state = STATE_REVIEW
  /\ redo_single = -1
  /\ caplog = <<>>
  /\ review_sel = 7
  /\ mappings[7] # InOrderMappings[7]
  /\ mappings[7].mapped_type # MAP_NONE
  /\ \A j \in 0..(NUM_MAPPINGS - 1) : j # 7 => mappings[j] = InOrderMappings[j]

C4_AsStated ==
  last_poll.from = STATE_REVIEW /\ (last_poll.n.btn_a \/ last_poll.key \in {KEY_ENTER, KEY_SPACE})
    => /\ review_sel = REVIEW_ACTION_SAVE => state = STATE_BROWSE
       /\ review_sel = REVIEW_ACTION_RESTART => state = STATE_MAPPING /\ redo_single = -1
       /\ review_sel = REVIEW_ACTION_ANOTHER => state = STATE_DETECT
       /\ review_sel = REVIEW_ACTION_QUIT => state = STATE_EXIT
       /\ review_sel \in 0..(NUM_MAPPINGS - 1) => state = STATE_MAPPING /\ redo_single >= 0

\* C4: REVIEW action dispatch.  After a REVIEW poll that read a confirm signal
\* and no shortcut key (1, 2, 3, 4, Q, Esc), the cursor being on the row the poll
\* left it on: on Save the wizard is in BROWSE, on Restart in MAPPING at channel 0
\* with all channels unset and the redo flag clear, on Map Another in DETECT, on
\* Quit in EXIT; on a channel row it is in MAPPING redoing that channel, so none
\* of the four actions was taken.
C4_ReviewDispatch ==
  /\ last_poll.from = STATE_REVIEW
  /\ last_poll.n.btn_a \/ last_poll.key \in {KEY_ENTER, KEY_SPACE}
  /\ last_poll.key \notin {KEY_1, KEY_2, KEY_3, KEY_4, KEY_Q, KEY_ESC}
  => /\ review_sel = REVIEW_ACTION_SAVE => state = STATE_BROWSE
     /\ review_sel = REVIEW_ACTION_RESTART
          => state = STATE_MAPPING /\ redo_single = -1 /\ cur_map = 0 /\ mappings = init_mappings
     /\ review_sel = REVIEW_ACTION_ANOTHER => state = STATE_DETECT
     /\ review_sel = REVIEW_ACTION_QUIT => state = STATE_EXIT
     /\ review_sel \in 0..(NUM_MAPPINGS - 1)
          => state = STATE_MAPPING /\ redo_single = review_sel /\ mappings # init_mappings

\* C4 witness: the confirm button of the gamepad was read with the cursor on
\* Quit, no key was read, and the wizard is in EXIT
C4_Witness ==
  /\ last_poll.from = STATE_REVIEW
  /\ last_poll.n.btn_a
  /\ last_poll.key = 0
  /\ review_sel = REVIEW_ACTION_QUIT
  /\ state = STATE_EXIT

\* C5: Restart.  The REVIEW poll in which Restart is chosen, by a confirm signal
\* with the cursor on its row and no shortcut key read, or by its shortcut key,
\* leaves all 10 channels unset, the current channel 0, the redo flag clear and
\* the state MAPPING, and leaves the selected controller, the auxiliary navigator
\* and the registry as they were.
C5_Restart ==
  [][/\ state = STATE_REVIEW
     /\ last_poll'.from = STATE_REVIEW
     /\ \/ last_poll'.key = KEY_3
        \/ /\ last_poll'.n.btn_a \/ last_poll'.key \in {KEY_ENTER, KEY_SPACE}
           /\ last_poll'.key \notin {KEY_1, KEY_2, KEY_3, KEY_4, KEY_Q, KEY_ESC}
           /\ review_sel' = REVIEW_ACTION_RESTART
     => /\ state' = STATE_MAPPING
        /\ \A i \in 0..(NUM_MAPPINGS - 1) :
             mappings'[i] = [mapped_type |-> MAP_NONE, mapped_index |-> 0, hat_mask |-> 0]
        /\ cur_map' = 0
        /\ redo_single' = -1
        /\ sel_ctrl' = sel_ctrl
        /\ thec64_nav_idx' = thec64_nav_idx
        /\ controllers' = controllers]_vars

\* C5 witness: Restart was confirmed by the Enter key on its row; MAPPING asks
\* for channel 0 with every channel unset, the gamepad still selected
C5_Witness ==
  /\ last_poll.from = STATE_REVIEW
  /\ last_poll.key = KEY_ENTER
  /\ review_sel = REVIEW_ACTION_RESTART
  /\ state = STATE_MAPPING
  /\ cur_map = 0
  /\ redo_single = -1
  /\ sel_ctrl = 0
  /\ thec64_nav_idx = 1
  /\ \A i \in 0..(NUM_MAPPINGS - 1) : mappings[i].mapped_type = MAP_NONE

\* C6: Map Another.  After the REVIEW poll in which Map Another is chosen, by a
\* confirm signal with the cursor on its row and no shortcut key read, or by its
\* shortcut key, the state is DETECT; in DETECT no controller is selected, no
\* auxiliary navigator is set, all 10 channels are unset and the save path is
\* empty; and in the sequential capture that follows, the channels not yet
\* captured are unset.
C6_MapAnother ==
  /\ /\ last_poll.from = STATE_REVIEW
     /\ \/ last_poll.key = KEY_4
        \/ /\ last_poll.n.btn_a \/ last_poll.key \in {KEY_ENTER, KEY_SPACE}
           /\ last_poll.key \notin {KEY_1, KEY_2, KEY_3, KEY_4, KEY_Q, KEY_ESC}
           /\ review_sel = REVIEW_ACTION_ANOTHER
     => state = STATE_DETECT
  /\ state = STATE_DETECT
     => /\ sel_ctrl = -1
        /\ thec64_nav_idx = -1
        /\ \A i \in 0..(NUM_MAPPINGS - 1) :
             mappings[i] = [mapped_type |-> MAP_NONE, mapped_index |-> 0, hat_mask |-> 0]
        /\ save_path = <<>>
  /\ state = STATE_MAPPING /\ redo_single < 0
     => \A i \in 0..(NUM_MAPPINGS - 1) :
          i >= Len(caplog) => mappings[i].mapped_type = MAP_NONE

\* C6 witness: Map Another was confirmed on its row with the gamepad after an
\* export had been recorded; the wizard is in DETECT with nothing carried over
C6_Witness ==
  /\ last_poll.from = STATE_REVIEW
  /\ last_poll.n.btn_a
  /\ last_poll.key = 0
  /\ review_sel = REVIEW_ACTION_ANOTHER
  /\ state = STATE_DETECT
  /\ files # {}
  /\ save_path = <<>>
  /\ sel_ctrl = -1
  /\ thec64_nav_idx = -1
  /\ mappings = init_mappings

\* the line "030000005e0400008e02000014010000,Pad,lefttrigger:b0,righttrigger:b1,
\* x:b2,y:b3,a:b4,b:b5,back:b6,start:b7,leftx:b8,lefty:h0.8,platform:Linux,"
RedoneLine ==
  <<"0", "3", "0", "0", "0", "0", "0", "0", "5", "e", "0", "4", "0", "0", "0", "0", "8", "e", "0", "2",
    "0", "0", "0", "0", "1", "4", "0", "1", "0", "0", "0", "0", ",", "P", "a", "d", ",", "l", "e", "f",
    "t", "t", "r", "i", "g", "g", "e", "r", ":", "b", "0", ",", "r", "i", "g", "h", "t", "t", "r", "i",
    "g", "g", "e", "r", ":", "b", "1", ",", "x", ":", "b", "2", ",", "y", ":", "b", "3", ",", "a", ":",
    "b", "4", ",", "b", ":", "b", "5", ",", "b", "a", "c", "k", ":", "b", "6", ",", "s", "t", "a", "r",
    "t", ":", "b", "7", ",", "l", "e", "f", "t", "x", ":", "b", "8", ",", "l", "e", "f", "t", "y", ":",
    "h", "0", ".", "8", ",", "p", "l", "a", "t", "f", "o", "r", "m", ":", "L", "i", "n", "u", "x", ",">>

\* the file /mnt/usb/030000005e0400008e02000014010000.txt
UsbFilePath ==
  <<"/", "m", "n", "t", "/", "u", "s", "b", "/", "0", "3", "0", "0", "0", "0", "0", "0", "5", "e", "0",
    "4", "0", "0", "0", "0", "8", "e", "0", "2", "0", "0", "0", "0", "1", "4", "0", "1", "0", "0", "0",
    "0", ".", "t", "x", "t">>

\* C7: export success.  A BROWSE poll that reads a confirm signal with the cursor
\* (after the poll's move) on the export entry, and whose fopen succeeds, leaves
\* in the browsed directory a file <GUID>.txt, GUID of the selected controller,
\* holding one line, the serialization of the bindings as they are at that poll;
\* the save path is that file's path, the state is REVIEW, and the bindings and
\* the other files are as before.
C7_ExportSuccess ==
  [][LET n == NavInput
         key == read_keyboard(kbd).key
         dy == IF key = KEY_DOWN THEN 1 ELSE IF key = KEY_UP THEN -1 ELSE n.dy
         unclamped == browser.selected + dy
         cursor == IF unclamped < 0 THEN 0
                   ELSE IF unclamped >= browser.count THEN browser.count - 1 ELSE unclamped
         guid == Controller[controllers[sel_ctrl + 1]].guid
         filepath == (IF browser.path = <<"/">> THEN <<>> ELSE browser.path)
                       \o <<"/">> \o guid \o <<".", "t", "x", "t">>
         line == build_mapping_string(Controller[controllers[sel_ctrl + 1]], mappings)
     IN /\ state = STATE_BROWSE
        /\ queue' = drain_nav_events(queue)
        /\ kbd' = read_keyboard(kbd).rest
        /\ n.btn_a \/ key = KEY_ENTER
        /\ BrowserEntries(browser.path)[cursor + 1].name = ExportHere
        /\ last_poll'.fopen # "failed"
        => /\ last_poll'.fopen = "ok"
           /\ files' = {f \in files : f.path # filepath}
                         \cup {[path |-> filepath, content |-> line \o <<"\n">>]}
           /\ save_path' = filepath
           /\ state' = STATE_REVIEW
           /\ mappings' = mappings]_vars

\* C7 witness: after the redo of channel 9 the export entry of /mnt/usb was
\* confirmed; the file holds the line with lefty:h0.8 and REVIEW shows its path
C7_Witness ==
  /\ state = STATE_REVIEW
  /\ last_poll.from = STATE_BROWSE
  /\ last_poll.fopen = "ok"
  /\ mappings = RedoneMappings
  /\ save_path = UsbFilePath
  /\ [path |-> UsbFilePath, content |-> RedoneLine \o <<"\n">>] \in files

\* C8 as stated: a BROWSE poll that reads a confirm signal with the cursor on
\* the export entry, and whose fopen fails, leaves the state BROWSE, the save
\* path, the files and the bindings as they were.
C8_AsStated ==
  [][/\ state = STATE_BROWSE
     /\ queue' = drain_nav_events(queue)
     /\ kbd' = read_keyboard(kbd).rest
     /\ last_poll'.fopen = "failed"
     => /\ state' = STATE_BROWSE
        /\ save_path' = save_path
        /\ files' = files
        /\ mappings' = mappings]_vars

\* C8: export failure.  A BROWSE poll that reads a confirm signal with the cursor
\* (after the poll's move) on the export entry, and whose fopen fails, writes no
\* file, leaves the save path and the bindings as they were, and leaves the state
\* BROWSE unless a start signal (start button, Q or Esc) was read in the same
\* poll, in which case the state is REVIEW.
C8_ExportFailure ==
  [][LET n == NavInput
         key == read_keyboard(kbd).key
         dy == IF key = KEY_DOWN THEN 1 ELSE IF key = KEY_UP THEN -1 ELSE n.dy
         unclamped == browser.selected + dy
         cursor == IF unclamped < 0 THEN 0
                   ELSE IF unclamped >= browser.count THEN browser.count - 1 ELSE unclamped
     IN /\ state = STATE_BROWSE
        /\ queue' = drain_nav_events(queue)
        /\ kbd' = read_keyboard(kbd).rest
        /\ n.btn_a \/ key = KEY_ENTER
        /\ BrowserEntries(browser.path)[cursor + 1].name = ExportHere
        /\ last_poll'.fopen # "ok"
        => /\ last_poll'.fopen = "failed"
           /\ files' = files
           /\ save_path' = save_path
           /\ mappings' = mappings
           /\ state' = IF n.btn_start \/ key \in {KEY_Q, KEY_ESC}
                       THEN STATE_REVIEW ELSE STATE_BROWSE]_vars

\* C8 witness: the export entry was confirmed, the file could not be opened, and
\* the wizard is still in BROWSE with no file and no save path
C8_Witness ==
  /\ state = STATE_BROWSE
  /\ last_poll.from = STATE_BROWSE
  /\ last_poll.fopen = "failed"
  /\ ~last_poll.n.btn_start
  /\ files = {}
  /\ save_path = <<>>

\* C9 as stated: a BROWSE poll that reads a back signal (back button, Left or
\* Backspace) leaves the state REVIEW, and the files and the save path as they
\* were.
C9_AsStated ==
  [][/\ state = STATE_BROWSE
     /\ queue' = drain_nav_events(queue)
     /\ kbd' = read_keyboard(kbd).rest
     /\ NavInput.btn_b \/ read_keyboard(kbd).key \in {KEY_LEFT, KEY_BACKSPACE}
     => /\ state' = STATE_REVIEW
        /\ files' = files
        /\ save_path' = save_path]_vars

\* C9: leaving BROWSE.  A BROWSE poll that reads a start signal (start button, Q
\* or Esc) leaves the state REVIEW.  A poll that reads a back signal (back
\* button, Left or Backspace) and neither a start nor a confirm signal leaves the
\* state BROWSE, the browser in the parent directory with its cursor on the
\* first entry.  A poll that reads no confirm signal writes no file and leaves
\* the save path as it was.
C9_BackAndStart ==
  [][LET n == NavInput
         key == read_keyboard(kbd).key
         confirm == n.btn_a \/ key = KEY_ENTER
         back == n.btn_b \/ key \in {KEY_LEFT, KEY_BACKSPACE}
         start == n.btn_start \/ key \in {KEY_Q, KEY_ESC}
         parent == IF browser.path = <<"/", "m", "n", "t", "/", "u", "s", "b">>
                   THEN <<"/", "m", "n", "t">> ELSE <<"/">>
     IN /\ state = STATE_BROWSE
        /\ queue' = drain_nav_events(queue)
        /\ kbd' = read_keyboard(kbd).rest
        => /\ start => state' = STATE_REVIEW
           /\ back /\ ~start /\ ~confirm
                => /\ state' = STATE_BROWSE
                   /\ browser'.path = parent
                   /\ browser'.selected = 0
                   /\ browser'.count = Len(BrowserEntries(parent))
           /\ ~confirm => files' = files /\ save_path' = save_path]_vars

\* C9 witness: in /mnt/usb the Left key was read; the wizard is still in BROWSE,
\* now in /mnt
C9_Witness ==
  /\ state = STATE_BROWSE
  /\ last_poll.from = STATE_BROWSE
  /\ last_poll.key = KEY_LEFT
  /\ ~last_poll.n.btn_a /\ ~last_poll.n.btn_start
  /\ browser.path = MntPath
  /\ browser.selected = 0
  /\ review_sel = REVIEW_ACTION_SAVE

\* C10: debounce.  The capture poll empties the selected controller's queue
\* behind the capturing event and binds one channel; during the settle delay no
\* binding changes; the step that ends the delay discards every event that
\* reached the selected controller's queue meanwhile, so the queue is empty when
\* the next channel is asked for, that channel still being unset, and a redone
\* channel keeps the capture that was made.
C10_Debounce ==
  /\ [][state = STATE_MAPPING /\ pc = "loop" /\ pc' = "settle"
          => /\ queue'[controllers[sel_ctrl + 1]] = <<>>
             /\ mappings'[cur_map].mapped_type # MAP_NONE
             /\ \A j \in 0..(NUM_MAPPINGS - 1) : j # cur_map => mappings'[j] = mappings[j]]_vars
  /\ [][state = STATE_MAPPING /\ pc = "settle"
          => /\ mappings' = mappings
             /\ pc' = "loop"
                  => /\ queue'[controllers[sel_ctrl + 1]] = <<>>
                     /\ last_poll'.drained = queue[controllers[sel_ctrl + 1]]
                     /\ state' = STATE_MAPPING => mappings'[cur_map'].mapped_type = MAP_NONE
                     /\ state' # STATE_MAPPING => state' = STATE_REVIEW]_vars

\* C10 witness: button 0 was captured for channel 0; its release and one bounce
\* reached the queue during the settle delay and were discarded; channel 1 is
\* asked for and is unset
C10_Witness ==
  /\ state = STATE_MAPPING
  /\ pc = "loop"
  /\ redo_single = -1
  /\ cur_map = 1
  /\ mappings[0] = [mapped_type |-> MAP_BUTTON, mapped_index |-> 0, hat_mask |-> 0]
  /\ mappings[1].mapped_type = MAP_NONE
  /\ last_poll.from = STATE_MAPPING
  /\ last_poll.drained = <<<<EV_KEY, BTN_GAMEPAD, 0>>, <<EV_KEY, BTN_GAMEPAD, 1>>>>
  /\ queue[PadNode] = <<>>

\* the fields of text s between the separators sep, a trailing empty field included
Split(s, sep) ==
  LET at == {i \in 1..Len(s) : s[i] = sep}
      n == Cardinality(at)
      pos(k) == IF k = 0 THEN 0
                ELSE IF k = n + 1 THEN Len(s) + 1
                ELSE CHOOSE i \in at : Cardinality({j \in at : j < i}) = k - 1
  IN [k \in 1..(n + 1) |-> SubSeq(s, pos(k - 1) + 1, pos(k) - 1)]

\* the names of the 10 channels in the order of the line
ChannelNames ==
  <<<<"l","e","f","t","t","r","i","g","g","e","r">>, <<"r","i","g","h","t","t","r","i","g","g","e","r">>,
    <<"x">>, <<"y">>, <<"a">>, <<"b">>, <<"b","a","c","k">>, <<"s","t","a","r","t">>,
    <<"l","e","f","t","x">>, <<"l","e","f","t","y">>>>

\* C11: serializer format.  The line build_mapping_string returns for a
\* controller and 10 bindings is, split at its commas, the GUID, the name, then
\* for the channels lefttrigger, righttrigger, x, y, a, b, back, start, leftx,
\* lefty in this order one field <channel>:<code>, then platform:Linux, and it ends
\* with a comma; <code> is b<index> for a button, a<index> for an axis,
\* h<index>.<mask> for a hat and empty for an unbound channel, whose name and
\* colon are still there.
C11_SerializerFormat ==
  res.fn = "build_mapping_string"
    => LET c == Controller[arg.node]
           f == Split(res.val, ",")
           code(m) == IF m.mapped_type = MAP_BUTTON THEN <<"b">> \o FmtD(m.mapped_index)
                      ELSE IF m.mapped_type = MAP_AXIS THEN <<"a">> \o FmtD(m.mapped_index)
                      ELSE IF m.mapped_type = MAP_HAT
                        THEN <<"h">> \o FmtD(m.mapped_index) \o <<".">> \o FmtD(m.hat_mask)
                      ELSE <<>>
       IN /\ Len(f) = NUM_MAPPINGS + 4
          /\ f[1] = c.guid
          /\ f[2] = c.name
          /\ \A i \in 0..(NUM_MAPPINGS - 1) :
               f[i + 3] = ChannelNames[i + 1] \o <<":">> \o code(arg.maps[i])
          /\ f[NUM_MAPPINGS + 3] = <<"p","l","a","t","f","o","r","m",":","L","i","n","u","x">>
          /\ f[NUM_MAPPINGS + 4] = <<>>

\* C11 witness: the line of THEJOYSTICK for bindings that mix an unbound channel
\* (lefttrigger) with buttons
C11_Witness ==
  /\ res.fn = "build_mapping_string"
  /\ arg.node = JoyNode
  /\ arg.maps[0].mapped_type = MAP_NONE
  /\ arg.maps[9].mapped_type = MAP_BUTTON
  /\ SubSeq(res.val, 1, 62) =
       <<"0","3","0","0","0","0","0","0","5","9","1","c","0","0","0","0",
         "2","3","0","0","0","0","0","0","1","0","0","1","0","0","0","0",",",
         "T","H","E","C","6","4"," ","J","o","y","s","t","i","c","k",",",
         "l","e","f","t","t","r","i","g","g","e","r",":",",">>

\* the number written by the decimal digits s, -1 when s is not a digit string
NatOf(s) ==
  LET digit(c) == IF \E d \in 0..9 : hex[d + 1] = c THEN CHOOSE d \in 0..9 : hex[d + 1] = c ELSE -1
      pow10(k) == IF k = 0 THEN 1 ELSE IF k = 1 THEN 10 ELSE IF k = 2 THEN 100 ELSE 1000
      weigh[k \in 0..Len(s)] == IF k = 0 THEN 0 ELSE weigh[k - 1] + digit(s[k]) * pow10(Len(s) - k)
  IN IF Len(s) \in 1..4 /\ \A k \in 1..Len(s) : digit(s[k]) >= 0 THEN weigh[Len(s)] ELSE -1

\* a reader of channel codes: what the code b<i>, a<i>, h<i>.<m> or the empty
\* code stands for; type -1 for any other text
ParseCode(code) ==
  LET num(lo, hi) == NatOf(SubSeq(code, lo, hi))
      dot == IF \E k \in 1..Len(code) : code[k] = "." THEN CHOOSE k \in 1..Len(code) : code[k] = "." ELSE 0
      bad == [type |-> -1, index |-> 0, mask |-> 0]
  IN IF code = <<>> THEN [type |-> MAP_NONE, index |-> 0, mask |-> 0]
     ELSE IF code[1] = "b" /\ num(2, Len(code)) >= 0
       THEN [type |-> MAP_BUTTON, index |-> num(2, Len(code)), mask |-> 0]
     ELSE IF code[1] = "a" /\ num(2, Len(code)) >= 0
       THEN [type |-> MAP_AXIS, index |-> num(2, Len(code)), mask |-> 0]
     ELSE IF code[1] = "h" /\ dot > 2 /\ num(2, dot - 1) >= 0 /\ num(dot + 1, Len(code)) >= 0
       THEN [type |-> MAP_HAT, index |-> num(2, dot - 1), mask |-> num(dot + 1, Len(code))]
     ELSE bad

\* the capture result an entry holds: unset, button(i), axis(i) or hat(i, m)
CaptureOf(m) ==
  IF m.mapped_type = MAP_HAT THEN [type |-> MAP_HAT, index |-> m.mapped_index, mask |-> m.hat_mask]
  ELSE IF m.mapped_type \in {MAP_BUTTON, MAP_AXIS} THEN [type |-> m.mapped_type, index |-> m.mapped_index, mask |-> 0]
  ELSE [type |-> MAP_NONE, index |-> 0, mask |-> 0]

\* the code of channel i in a line: the text after the colon of its field
CodeOfChannel(line, i) ==
  LET f == Split(line, ",")[i + 3]
      colon == CHOOSE k \in 1..Len(f) : f[k] = ":"
  IN SubSeq(f, colon + 1, Len(f))

\* C12: serializer round trip.  Reading back the 10 channel codes of the line
\* build_mapping_string returns recovers for each channel the capture result it
\* held: unset, or the type with its index and, for a hat, its mask; and two sets
\* of bindings that hold different capture results on some channel serialize to
\* different lines for the same device.
C12_RoundTrip ==
  /\ res.fn = "build_mapping_string"
       => \A i \in 0..(NUM_MAPPINGS - 1) :
            ParseCode(CodeOfChannel(res.val, i)) = CaptureOf(arg.maps[i])
  /\ res.fn = "build_mapping_string twice"
       => /\ \A i \in 0..(NUM_MAPPINGS - 1) :
               /\ ParseCode(CodeOfChannel(res.val[1], i)) = CaptureOf(arg.maps[i])
               /\ ParseCode(CodeOfChannel(res.val[2], i)) = CaptureOf(arg.maps2[i])
          /\ res.val[1] = res.val[2]
               <=> \A i \in 0..(NUM_MAPPINGS - 1) : CaptureOf(arg.maps[i]) = CaptureOf(arg.maps2[i])

\* C12 witness: two sets of bindings that differ only in the hat direction bound
\* to lefty, serialized to two different lines that read back as hat 1 with mask
\* 8 and hat 0 with mask 4
C12_Witness ==
  /\ res.fn = "build_mapping_string twice"
  /\ arg.maps[9] = [mapped_type |-> MAP_HAT, mapped_index |-> 1, hat_mask |-> 8]
  /\ arg.maps2[9] = [mapped_type |-> MAP_HAT, mapped_index |-> 0, hat_mask |-> 4]
  /\ \A i \in 0..(NUM_MAPPINGS - 2) : arg.maps[i] = arg.maps2[i]
  /\ res.val[1] # res.val[2]
  /\ ParseCode(CodeOfChannel(res.val[1], 9)) = [type |-> MAP_HAT, index |-> 1, mask |-> 8]
  /\ ParseCode(CodeOfChannel(res.val[2], 9)) = [type |-> MAP_HAT, index |-> 0, mask |-> 4]

\* the value of the hexadecimal digit c, -1 for any other character
HexVal(c) ==
  LET digits == <<"0","1","2","3","4","5","6","7","8","9","a","b","c","d","e","f">>
  IN IF \E v \in 0..15 : digits[v + 1] = c THEN CHOOSE v \in 0..15 : digits[v + 1] = c ELSE -1

\* C13: GUID layout.  For 16-bit bustype, vendor, product and version, build_guid
\* returns 32 characters from 0-9a-f that render, two characters per byte (high
\* digit first) and in order, the bytes bustype low, bustype high, 00, 00, vendor
\* low, vendor high, 00, 00, product low, product high, 00, 00, version low,
\* version high, 00, 00.
C13_GuidLayout ==
  res.fn = "build_guid"
    => LET g == res.val
           byte(k) == 16 * HexVal(g[2 * k - 1]) + HexVal(g[2 * k])
           lo(w) == w - 256 * (w \div 256)
           hi(w) == w \div 256
       IN /\ Len(g) = 32
          /\ \A k \in 1..32 : HexVal(g[k]) >= 0
          /\ [k \in 1..16 |-> byte(k)]
               = <<lo(arg.id.bustype), hi(arg.id.bustype), 0, 0,
                   lo(arg.id.vendor), hi(arg.id.vendor), 0, 0,
                   lo(arg.id.product), hi(arg.id.product), 0, 0,
                   lo(arg.id.version), hi(arg.id.version), 0, 0>>

\* C13 witness: bustype 0x0003, vendor 0x045e, product 0xabcd, version 0x0100
\* give 030000005e040000cdab000000010000
C13_Witness ==
  /\ res.fn = "build_guid"
  /\ arg.id = [bustype |-> 3, vendor |-> 1118, product |-> 43981, version |-> 256]
  /\ res.val = <<"0","3","0","0","0","0","0","0","5","e","0","4","0","0","0","0",
                 "c","d","a","b","0","0","0","0","0","0","0","1","0","0","0","0">>

\* C14 as stated: the threshold is 40% of the half-range (maximum - minimum)/2,
\* to the rounding of one unit, and 1 when the range collapses to zero.
C14_AsStated ==
  res.fn = "thresh"
    => LET range == arg.range[2] - arg.range[1]
           of_half == ((range \div 2) * 40) \div 100
       IN IF range = 0 THEN res.val = 1
          ELSE res.val \in (of_half - 1)..(of_half + 1)

\* C15: threshold monotonicity.  For an axis with the range [min, max], the
\* midpoint (min + max) / 2 as its initial sample and the threshold the code
\* compares with (range * 2 / 5, or 1 for a collapsed range): a sample whose
\* distance from the initial sample is at most the threshold gives no axis
\* capture and no direction signal; a sample farther away is captured as that
\* axis and gives, on the channel the axis is bound to, the one direction that is
\* the sign of the difference, and no signal on the other channel.
C15_ThresholdMonotone ==
  res.fn = "axis sample"
    => LET min == arg.range[1]
           max == arg.range[2]
           sum == min + max
           initial == IF sum >= 0 THEN sum \div 2 ELSE -((-sum) \div 2)
           threshold == IF max - min > 0 THEN ((max - min) * 2) \div 5 ELSE 1
           delta == arg.sample - initial
           dist == IF delta >= 0 THEN delta ELSE -delta
       IN IF dist <= threshold
          THEN /\ ~res.val.capture.got
               /\ res.val.capture.entry.mapped_type = MAP_NONE
               /\ res.val.nav.dx = 0 /\ res.val.nav.dy = 0
          ELSE /\ res.val.capture.got
               /\ res.val.capture.entry.mapped_type = MAP_AXIS
               /\ res.val.capture.entry.mapped_index = 0
               /\ res.val.nav.dx = (IF delta > 0 THEN 1 ELSE -1)
               /\ res.val.nav.dy = 0

\* C15 witness: on the axis 0..255 (midpoint 127, threshold 102) the sample 24,
\* 103 below the midpoint, is captured as axis 0 and read as direction -1
C15_Witness ==
  /\ res.fn = "axis sample"
  /\ arg.range = <<0, 255>>
  /\ arg.sample = 24
  /\ res.val.capture.got
  /\ res.val.capture.entry = [mapped_type |-> MAP_AXIS, mapped_index |-> 0, hat_mask |-> 0]
  /\ res.val.nav.dx = -1

\* C16: is_gamepad.  For every combination of event-type, axis and key bits
\* drawn, is_gamepad returns true exactly when the device has the EV_ABS bit and
\* both the ABS_X and the ABS_Y bit, or has the EV_KEY bit and the bit of a code in
\* 0x120..0x12f (the 16 codes from BTN_JOYSTICK) or in 0x130..0x13f (the 16 codes
\* from BTN_GAMEPAD).
C16_IsGamepad ==
  res.fn = "is_gamepad"
    => (res.val
          <=> \/ 3 \in arg.dev.evbits /\ {0, 1} \subseteq arg.dev.absbits
              \/ 1 \in arg.dev.evbits
                   /\ \E code \in arg.dev.keybits : code \in 288..303 \/ code \in 304..319)

\* C16 witness: a device with the key bit of BTN_GAMEPAD + 15 only is a gamepad,
\* and one with the axis bits of ABS_X and ABS_HAT0X and the key bits of
\* BTN_JOYSTICK - 1 and BTN_GAMEPAD + 16 only is not
C16_Witness ==
  /\ res.fn = "is_gamepad"
  /\ \/ /\ arg.dev.evbits = {EV_KEY} /\ arg.dev.keybits = {319} /\ arg.dev.absbits = {}
        /\ res.val
     \/ /\ arg.dev.evbits = {EV_KEY, EV_ABS} /\ arg.dev.keybits = {287, 320}
        /\ arg.dev.absbits = {ABS_X, ABS_HAT0X}
        /\ ~res.val

C18_AsStated ==
  res.fn = "enumerate_buttons_axes"
    => LET e == res.val
           btns == {c \in DOMAIN e.btn_map : e.btn_map[c] # -1}
           axes == {c \in DOMAIN e.abs_map : e.abs_map[c] # -1}
           hats == {c \in DOMAIN e.hat_map : e.hat_map[c] # -1}
       IN /\ {e.btn_map[c] : c \in btns} = 0..(e.num_buttons - 1)
          /\ \A c, d \in btns : e.btn_map[c] = e.btn_map[d] => c = d
          /\ {e.abs_map[c] : c \in axes} = 0..(e.num_axes - 1)
          /\ \A c, d \in axes : e.abs_map[c] = e.abs_map[d] => c = d
          /\ {e.hat_map[c] : c \in hats} = 0..(e.num_hats - 1)
          /\ \A c, d \in hats : e.hat_map[c] = e.hat_map[d] => CDiv(c, 2) = CDiv(d, 2)

\* C19: duplicate detection is advisory.  In every state, row i of the review
\* screen shows a duplicate column exactly when channel i is bound and another
\* bound channel has the same type and index and, for a hat, the same mask, and
\* the column names exactly those channels.  With such a pair present, a REVIEW
\* poll that reads a confirm signal with the cursor on Save (and no shortcut key),
\* or the Save shortcut, enters BROWSE with the bindings as they were, and a
\* BROWSE poll that reads a confirm signal on the export entry and whose fopen
\* succeeds writes the serialization of the bindings and returns to REVIEW.
C19_DuplicatesAdvisory ==
  /\ [](\A i \in 0..(NUM_MAPPINGS - 1) :
          LET column == dups(mappings, i)
          IN {column[k] : k \in 1..Len(column)}
            = {j \in 0..(NUM_MAPPINGS - 1) :
                 /\ j # i
                 /\ mappings[i].mapped_type \in {MAP_BUTTON, MAP_AXIS, MAP_HAT}
                 /\ mappings[j].mapped_type = mappings[i].mapped_type
                 /\ mappings[j].mapped_index = mappings[i].mapped_index
                 /\ (mappings[i].mapped_type = MAP_HAT
                       => mappings[j].hat_mask = mappings[i].hat_mask)})
  /\ [][LET n == NavInput
            key == read_keyboard(kbd).key
        IN /\ state = STATE_REVIEW
           /\ queue' = drain_nav_events(queue)
           /\ kbd' = read_keyboard(kbd).rest
           /\ \E i \in 0..(NUM_MAPPINGS - 1) : dups(mappings, i) # <<>>
           /\ \/ key = KEY_2
              \/ /\ n.btn_a \/ key \in {KEY_ENTER, KEY_SPACE}
                 /\ key \notin {KEY_1, KEY_3, KEY_4, KEY_Q, KEY_ESC}
                 /\ review_sel' = REVIEW_ACTION_SAVE
           => state' = STATE_BROWSE /\ mappings' = mappings]_vars
  /\ [][LET guid == Controller[controllers[sel_ctrl + 1]].guid
            line == build_mapping_string(Controller[controllers[sel_ctrl + 1]], mappings)
        IN /\ state = STATE_BROWSE
           /\ last_poll'.fopen = "ok"
           /\ queue' = drain_nav_events(queue)
           /\ kbd' = read_keyboard(kbd).rest
           /\ \E i \in 0..(NUM_MAPPINGS - 1) : dups(mappings, i) # <<>>
           => /\ \E f \in files' : /\ f.content = line \o <<"\n">>
                                   /\ f.path = save_path'
                                   /\ SubSeq(f.path, Len(f.path) - 35, Len(f.path) - 4) = guid
              /\ state' = STATE_REVIEW
              /\ mappings' = mappings]_vars

\* C19 witness: with y on the button of x and back on the hat direction of
\* leftx, rows x, y, back and leftx show a duplicate column and no other row
\* does; the line with the duplicates was exported to /mnt/usb and, back in
\* REVIEW, Save was confirmed again and entered BROWSE
C19_Witness ==
  /\ mappings = DuplicateMappings
  /\ {i \in 0..(NUM_MAPPINGS - 1) : dups(mappings, i) # <<>>} = {2, 3, 6, 8}
  /\ dups(mappings, 6) = <<8>>
  /\ state = STATE_BROWSE
  /\ last_poll.from = STATE_REVIEW
  /\ last_poll.row = REVIEW_ACTION_SAVE
  /\ [path |-> UsbFilePath,
      content |-> build_mapping_string(Controller[PadNode], DuplicateMappings) \o <<"\n">>] \in files

\* C20: orderly shutdown on a signal.  The step that sets the quit flag changes
\* nothing else of the program: not the wizard, the files, the display, the open
\* handles or the position in the iteration.  With the flag set and the loop
\* condition next, no handler runs: the only step of the program is the one that
\* leaves the loop, while the devices may still queue events; an iteration in
\* progress is not cut short by the flag.  The step that leaves the loop, taken
\* only with the flag set or in state EXIT, leaves the display black and no
\* controller or keyboard handle open, and nothing is opened afterwards.
C20_OrderlyShutdown ==
  /\ [][g_quit' # g_quit
          => /\ g_quit'
             /\ UNCHANGED <<app_vars, queue, kbd, files, pc, fb, num_kbd_fds, open_fds,
                            caplog, redo_snap, last_poll>>]_vars
  /\ [][g_quit /\ pc = "loop"
          => \/ pc' = "exit"
             \/ /\ UNCHANGED <<app_vars, files, pc, fb, num_kbd_fds, open_fds, last_poll>>
                /\ \A d \in DOMAIN queue : Len(queue'[d]) >= Len(queue[d])
                /\ Len(kbd') >= Len(kbd)]_vars
  /\ [][g_quit /\ pc # "loop" /\ pc # "exit" => pc' # "exit"]_vars
  /\ [][pc # "exit" /\ pc' = "exit"
          => /\ g_quit \/ state = STATE_EXIT
             /\ fb' = "black"
             /\ HandlesOf(controllers) \cap open_fds' = {}
             /\ <<"kbd", 0>> \notin open_fds'
             /\ open_fds' = {}
             /\ controllers' = <<>> /\ num_kbd_fds' = 0]_vars
  /\ [][pc = "exit" => pc' = "exit" /\ open_fds' = {} /\ fb' = "black"]_vars

\* C20 witness: the signal arrived while the wizard was capturing channels; the
\* loop was left in state MAPPING with channel 0 captured, the display is black
\* and no handle is open
C20_Witness ==
  /\ pc = "exit"
  /\ g_quit
  /\ state = STATE_MAPPING
  /\ cur_map = 1
  /\ fb = "black"
  /\ open_fds = {}
  /\ controllers = <<>>

\* C21 as stated: the wizard, started in DETECT, enters the state DONE, and in
\* state EXIT at the loop condition the program takes no step but the one that
\* leaves the loop.
C21_AsStated ==
  /\ <>(state = STATE_DONE)
  /\ [][state = STATE_EXIT /\ pc = "loop"
          => pc' = "exit" \/ UNCHANGED <<app_vars, queue, kbd, files, pc, fb, open_fds>>]_vars

Qualifies(caps, ev) ==
  \/ ev[1] = EV_KEY /\ ev[3] = 1 /\ caps.btn_map[ev[2]] >= 0
  \/ /\ ev[1] = EV_ABS
     /\ ev[2] \notin ABS_HAT0X..ABS_HAT3Y
     /\ caps.abs_map[ev[2]] >= 0
     /\ LET d == ev[3] - caps.axis_initial[ev[2]]
        IN (IF d < 0 THEN -d ELSE d) > AxisThresh(caps, ev[2])
  \/ ev[1] = EV_ABS /\ ev[2] \in ABS_HAT0X..ABS_HAT3Y /\ ev[3] # 0

\* C23: one capture poll reads the selected controller's queue only, in order,
\* and stops at the first qualifying event: a press of a code with a button
\* index gives button(index), an axis outside the hat codes deflected beyond the
\* threshold gives axis(index), a hat code with a non-zero value gives a hat;
\* with no qualifying event the binding is unchanged; the events behind the
\* winning event are left unread and go with the drain that follows.
C23_CaptureMode ==
  [][state = STATE_MAPPING /\ pc = "loop"
       => LET caps == Controller[NodeOf(sel_ctrl)].caps
              q == queue[NodeOf(sel_ctrl)]
              wins == {k \in 1..Len(q) : Qualifies(caps, q[k])}
              r == poll_mapping_input(caps, q, mappings[cur_map])
          IN /\ \A d \in 1..NumDevices : d # NodeOf(sel_ctrl) => queue'[d] = queue[d]
             /\ \A j \in 0..(NUM_MAPPINGS - 1) : j # cur_map => mappings'[j] = mappings[j]
             /\ queue'[NodeOf(sel_ctrl)] = <<>>
             /\ IF wins = {}
                THEN /\ mappings' = mappings
                     /\ pc' = "loop"
                     /\ ~r.got
                     /\ r.rest = <<>>
                ELSE LET k == CHOOSE k \in wins : \A j \in wins : k <= j
                         ev == q[k]
                         e == mappings'[cur_map]
                     IN /\ pc' = "settle"
                        /\ r.got
                        /\ r.entry = e
                        /\ r.rest = SubSeq(q, k + 1, Len(q))
                        /\ ev[1] = EV_KEY
                             => e.mapped_type = MAP_BUTTON /\ e.mapped_index = caps.btn_map[ev[2]]
                        /\ ev[1] = EV_ABS /\ ev[2] \notin ABS_HAT0X..ABS_HAT3Y
                             => e.mapped_type = MAP_AXIS /\ e.mapped_index = caps.abs_map[ev[2]]
                        /\ ev[1] = EV_ABS /\ ev[2] \in ABS_HAT0X..ABS_HAT3Y
                             => e.mapped_type = MAP_HAT /\ e.hat_mask # 0]_vars

\* the stick was captured for channel 0; THEJOYSTICK's press is still queued
C23_Witness ==
  /\ state = STATE_MAPPING
  /\ pc = "settle"
  /\ cur_map = 0
  /\ mappings[0] = [mapped_type |-> MAP_AXIS, mapped_index |-> 1, hat_mask |-> 0]
  /\ queue[PadNode] = <<>>
  /\ queue[JoyNode] = <<<<EV_KEY, BTN_TRIGGER, 1>>>>

\* C24: a captured hat event gives the hat index (code - ABS_HAT0X) / 2 and one
\* direction bit: on the X code of the pair Left = 8 for a negative and Right = 2
\* for a positive value, on the Y code Up = 1 for a negative and Down = 4 for a
\* positive value; the mask is one of 1, 2, 4, 8.
C24_HatMask ==
  [][state = STATE_MAPPING /\ pc = "loop" /\ pc' = "settle"
       => LET caps == Controller[NodeOf(sel_ctrl)].caps
              q == queue[NodeOf(sel_ctrl)]
              wins == {k \in 1..Len(q) : Qualifies(caps, q[k])}
              ev == q[CHOOSE k \in wins : \A j \in wins : k <= j]
              off == ev[2] - ABS_HAT0X
              e == mappings'[cur_map]
          IN /\ e.mapped_type = MAP_HAT <=> ev[1] = EV_ABS /\ off \in 0..7
             /\ e.mapped_type = MAP_HAT
                  => /\ e.mapped_index = off \div 2
                     /\ e.hat_mask \in {1, 2, 4, 8}
                     /\ e.hat_mask = 8 <=> off % 2 = 0 /\ ev[3] < 0
                     /\ e.hat_mask = 2 <=> off % 2 = 0 /\ ev[3] > 0
                     /\ e.hat_mask = 1 <=> off % 2 = 1 /\ ev[3] < 0
                     /\ e.hat_mask = 4 <=> off % 2 = 1 /\ ev[3] > 0]_vars

\* hat 3 was pushed up while channel 9 was redone
C24_Witness ==
  /\ state = STATE_MAPPING
  /\ pc = "settle"
  /\ redo_single = 9
  /\ mappings[9] = [mapped_type |-> MAP_HAT, mapped_index |-> 3, hat_mask |-> 1]

\* the step is a poll of update_review or update_browse
MenuPoll == state \in {STATE_REVIEW, STATE_BROWSE} /\ pc = "loop" /\ last_poll'.from = state

\* a press of the button bound to channel k
BoundPress(caps, maps, k, ev) ==
  /\ ev[1] = EV_KEY /\ ev[3] = 1
  /\ maps[k].mapped_type = MAP_BUTTON
  /\ caps.btn_map[ev[2]] = maps[k].mapped_index

\* a deflection of the axis, or a push of the hat along the direction, bound
\* to the channel with the capture fields m
BoundDirection(caps, m, ev) ==
  /\ ev[1] = EV_ABS
  /\ \/ /\ m.mapped_type = MAP_AXIS
        /\ caps.abs_map[ev[2]] = m.mapped_index
        /\ LET d == ev[3] - caps.axis_initial[ev[2]]
           IN (IF d < 0 THEN -d ELSE d) > AxisThresh(caps, ev[2])
     \/ /\ m.mapped_type = MAP_HAT
        /\ caps.hat_map[ev[2]] = m.mapped_index
        /\ ev[3] # 0
        /\ (ev[2] - ABS_HAT0X) % 2 = (IF m.hat_mask \in {1, 4} THEN 1 ELSE 0)

\* C25: in navigation mode an event of the selected controller asserts a signal
\* only through a channel bound to it: confirm by the button of channel 0 or 4,
\* back by that of channel 5, start by that of channel 7, up/down by the axis or
\* hat direction bound to channel 9, left/right by the one bound to channel 8;
\* an event that matches no bound channel asserts nothing.
C25_AsStated ==
  [][MenuPoll /\ NavQueue = <<>>
       => LET caps == Controller[NodeOf(sel_ctrl)].caps
              q == queue[NodeOf(sel_ctrl)]
              n == last_poll'.n
          IN /\ n.btn_a <=> \E k \in 1..Len(q) : BoundPress(caps, mappings, 0, q[k])
                                                  \/ BoundPress(caps, mappings, 4, q[k])
             /\ n.btn_b <=> \E k \in 1..Len(q) : BoundPress(caps, mappings, 5, q[k])
             /\ n.btn_start <=> \E k \in 1..Len(q) : BoundPress(caps, mappings, 7, q[k])
             /\ n.dy # 0 <=> \E k \in 1..Len(q) : BoundDirection(caps, mappings[9], q[k])
             /\ n.dx # 0 <=> \E k \in 1..Len(q) : BoundDirection(caps, mappings[8], q[k])]_vars

C27_SignalMerge ==
  [][MenuPoll
       => LET caps == Controller[NodeOf(sel_ctrl)].caps
              q == queue[NodeOf(sel_ctrl)]
              j == NavQueue
              n == last_poll'.n
              key == last_poll'.key
              a == [k \in 1..(Len(q) + Len(j)) |->
                      IF k <= Len(q) THEN NavEvent(caps, mappings, q[k], NoNav)
                      ELSE Thec64Event(j[k - Len(q)], NoNav)]
              ys == {k \in DOMAIN a : a[k].dy # 0}
              xs == {k \in DOMAIN a : a[k].dx # 0}
          IN /\ n.btn_a <=> \E k \in DOMAIN a : a[k].btn_a
             /\ n.btn_b <=> \E k \in DOMAIN a : a[k].btn_b
             /\ n.btn_start <=> \E k \in DOMAIN a : a[k].btn_start
             /\ n.dy = IF ys = {} THEN 0 ELSE a[CHOOSE k \in ys : \A i \in ys : i <= k].dy
             /\ n.dx = IF xs = {} THEN 0 ELSE a[CHOOSE k \in xs : \A i \in xs : i <= k].dx
             /\ state = STATE_REVIEW /\ key \notin {KEY_1, KEY_2, KEY_3, KEY_4, KEY_Q, KEY_ESC}
                  => review_sel' = ReviewMove(review_sel, IF key = KEY_UP THEN -1
                                                          ELSE IF key = KEY_DOWN THEN 1
                                                          ELSE n.dy)]_vars

\* both sticks were read, THEJOYSTICK's last (up), and the keyboard's Down
\* moved the cursor down
C27_Witness ==
  /\ state = STATE_REVIEW
  /\ mappings = StickMappings
  /\ last_poll.from = STATE_REVIEW
  /\ last_poll.n.dy = -1
  /\ last_poll.n.dx = 1
  /\ last_poll.key = KEY_DOWN
  /\ last_poll.row = REVIEW_ACTION_RESTART
  /\ review_sel = REVIEW_ACTION_ANOTHER

\* C28: the registry is replaced only by update_detect; in MAPPING, REVIEW and
\* BROWSE the registry and its handles stay as they are until main leaves the
\* loop, so the selected controller index and the auxiliary navigator index
\* denote the same open devices for the whole mapping session.
C28_ScanOnlyInDetect ==
  /\ [](state \in {STATE_MAPPING, STATE_REVIEW, STATE_BROWSE} /\ pc # "exit"
          => /\ sel_ctrl \in 0..(Len(controllers) - 1)
             /\ <<"event", NodeOf(sel_ctrl)>> \in open_fds
             /\ thec64_nav_idx >= 0
                  => /\ thec64_nav_idx \in 0..(Len(controllers) - 1)
                     /\ <<"event", NodeOf(thec64_nav_idx)>> \in open_fds)
  /\ [][controllers' # controllers /\ pc' # "exit" => state = STATE_DETECT /\ rescan_due]_vars
  /\ [][pc' # "exit" /\ state \in {STATE_MAPPING, STATE_REVIEW, STATE_BROWSE}
          => /\ controllers' = controllers
             /\ {h \in open_fds' : h[1] = "event"} = {h \in open_fds : h[1] = "event"}
             /\ (state' \in {STATE_MAPPING, STATE_REVIEW, STATE_BROWSE}
                  => (sel_ctrl' = sel_ctrl /\ thec64_nav_idx' = thec64_nav_idx))]_vars

\* THEJOYSTICK was plugged in during the session: in REVIEW it has a device
\* node and is not in the registry
C28_Witness ==
  /\ state = STATE_REVIEW
  /\ dev_dir = {PadNode, JoyNode}
  /\ controllers = <<PadNode>>
  /\ sel_ctrl = 0
  /\ thec64_nav_idx = -1
  /\ last_poll.from = STATE_REVIEW

\* the descriptors the registry reg holds
RegFds(reg) == {reg[i].fd : i \in 1..Len(reg)}

\* the calls of log from call i on, made with the descriptors fds open: no
\* descriptor is closed that is not open, and the descriptors left open
RECURSIVE Replay(_, _, _)
Replay(log, i, fds) ==
  IF i > Len(log) THEN [ok |-> TRUE, fds |-> fds]
  ELSE IF log[i][1] = "close" \/ log[i][1] = "closedir"
  THEN IF log[i][2] \in fds THEN Replay(log, i + 1, fds \ {log[i][2]})
       ELSE [ok |-> FALSE, fds |-> fds]
  ELSE IF log[i][2] \notin fds THEN Replay(log, i + 1, fds \cup {log[i][2]})
       ELSE [ok |-> FALSE, fds |-> fds]

\* after the scan s, started with the descriptors before open of which others
\* are not the registry's: every open descriptor beside others is held by
\* exactly one registry entry
Owned(s, before, others) ==
  /\ Len(s.reg) <= MAX_CONTROLLERS
  /\ \A i, j \in 1..Len(s.reg) : s.reg[i].fd = s.reg[j].fd => i = j
  /\ RegFds(s.reg) \cap others = {}
  /\ s.fds = others \cup RegFds(s.reg)
  /\ Replay(s.log, 1, before) = [ok |-> TRUE, fds |-> s.fds]

\* C29: scan_controllers closes every handle of the previous registry before it
\* opens anything and closes every handle it opens for a device it does not
\* register; after each scan the open controller handles are exactly those of
\* the registry entries, and the registry holds at most 8 controllers.
C29_HandleOwnership ==
  res.fn = "scan_controllers"
    => LET s1 == res.val.first
           s2 == res.val.second
           others == BaseFds \cup {res.val.kbd_fd}
       IN /\ Owned(s1, BaseFds, BaseFds)
          /\ Owned(s2, s1.fds \cup {res.val.kbd_fd}, others)
          /\ Len(s2.log) >= Len(s1.reg)
          /\ \A i \in 1..Len(s1.reg) : s2.log[i] = <<"close", s1.reg[i].fd>>

\* the first scan registered two gamepads, the rescan found nine and
\* registered eight of them
C29_Witness ==
  /\ res.fn = "scan_controllers"
  /\ Len(res.val.first.reg) = 2
  /\ Len(arg.dir2.entries) = MAX_CONTROLLERS + 1
  /\ Len(res.val.second.reg) = MAX_CONTROLLERS
  /\ res.val.kbd_fd = 4
  /\ RegFds(res.val.second.reg) = 6..(MAX_CONTROLLERS + 5)

\* C30: a device whose open fails, or for which a capability query or the
\* identification query fails during the scan, is not added to the registry,
\* and the scan goes on with the remaining entries: the registry holds, in
\* directory order, the gamepads on which no such call failed.
C30_AsStated ==
  res.fn = "scan_controllers" /\ arg.dir1.ok
    => LET dir == arg.dir1.entries
           reg == res.val.first.reg
           failing == {"open", "EVIOCGBIT(0)", "EVIOCGBIT(EV_ABS)", "EVIOCGBIT(EV_KEY)", "EVIOCGID",
                       "enumerate"}
           sound == {k \in 1..Len(dir) :
                       dir[k].event /\ is_gamepad(dir[k].dev) /\ dir[k].fails \cap failing = {}}
       IN /\ \A i \in 1..Len(reg) : reg[i].entry \in sound
          /\ \A i, j \in 1..Len(reg) : i < j => reg[i].entry < reg[j].entry
          /\ Len(reg) < MAX_CONTROLLERS => \A k \in sound : \E i \in 1..Len(reg) : reg[i].entry = k
\* the two GUIDs of find_thec64_nav's list: bus 0x0003, vendor 0x1c59, product
\* 0x0023 or 0x0024, version 0x0110, each field low byte first
ListedGuids ==
  {<<"0","3","0","0","0","0","0","0","5","9","1","c","0","0","0","0",
     "2","3","0","0","0","0","0","0","1","0","0","1","0","0","0","0">>,
   <<"0","3","0","0","0","0","0","0","5","9","1","c","0","0","0","0",
     "2","4","0","0","0","0","0","0","1","0","0","1","0","0","0","0">>}

\* registry entry c is one the lookup accepts
Listed(c) ==
  \/ \E k \in 1..(Len(c.name) - 14) : SubSeq(c.name, k, k + 14) = JoyName
  \/ c.guid \in ListedGuids

\* C31: find_thec64_nav, called with a selected registry index, returns the
\* lowest registry index other than the selected one whose entry has 'THEC64
\* Joystick' in its name or one of the two listed GUIDs, and -1 (none) when
\* there is no such entry; what it returns is never the selected index.
C31_NavigatorLookup ==
  (arg.fn = "find_thec64_nav" /\ res # NoRes) =>
    LET cand == {i \in 0..(Len(arg.ctrls) - 1) : i # arg.sel /\ Listed(arg.ctrls[i + 1])}
    IN /\ res.val # arg.sel
       /\ cand = {} => res.val = -1
       /\ cand # {} => res.val \in cand /\ \A j \in cand : res.val <= j

\* C31 witness: the selected entry and a later one are both THEJOYSTICK (the
\* selected by name, the later by its GUID alone), the entry between them
\* misses the list by its product number, and the lookup returns the later one
C31_Witness ==
  /\ arg.fn = "find_thec64_nav"
  /\ res # NoRes
  /\ Len(arg.ctrls) = 3
  /\ arg.sel = 0
  /\ arg.ctrls[1].name = JoyName
  /\ arg.ctrls[2] = [name |-> PadName,
                     guid |-> build_guid([bustype |-> 3, vendor |-> 7257, product |-> 37,
                                          version |-> 272])]
  /\ arg.ctrls[3].name = PadName
  /\ arg.ctrls[3].guid \in ListedGuids
  /\ res.val = 2

\* the vertical signal update_review acts on in the poll recorded in p: the
\* merged dy of the controllers, replaced by the arrow key when one was read
PollDy(p) == IF p.key = KEY_DOWN THEN 1 ELSE IF p.key = KEY_UP THEN -1 ELSE p.n.dy

\* C32: the review cursor is in 0..13 in every state; a poll of update_review
\* that reads an up signal with the cursor on row 0, or a down signal with the
\* cursor on row 13, leaves the cursor where it was; and the step that enters
\* REVIEW at the end of a sequential capture leaves the cursor on row 0.
C32_CursorBounds ==
  [][/\ review_sel' \in 0..(REVIEW_TOTAL_ITEMS - 1)
     /\ (state = STATE_REVIEW /\ last_poll'.from = STATE_REVIEW) =>
           /\ (review_sel = 0 /\ PollDy(last_poll') = -1) => review_sel' = 0
           /\ (review_sel = REVIEW_TOTAL_ITEMS - 1 /\ PollDy(last_poll') = 1)
                 => review_sel' = REVIEW_TOTAL_ITEMS - 1
     /\ (state = STATE_MAPPING /\ state' = STATE_REVIEW /\ redo_single < 0) => review_sel' = 0
    ]_vars

\* C32 witness: a poll read a down signal with the cursor on the last row
\* (Quit) and nothing else; the cursor is still there and the wizard in REVIEW
C32_Witness ==
  /\ state = STATE_REVIEW
  /\ last_poll.from = STATE_REVIEW
  /\ last_poll.row = REVIEW_TOTAL_ITEMS - 1
  /\ PollDy(last_poll) = 1
  /\ review_sel = REVIEW_ACTION_QUIT

\* C33 as stated: in every state the wizard is in DETECT exactly when no
\* controller is selected, and in MAPPING, REVIEW and BROWSE the selected index
\* is an index of the current registry.
C33_AsStated ==
  /\ state = STATE_DETECT <=> sel_ctrl = -1
  /\ state \in {STATE_MAPPING, STATE_REVIEW, STATE_BROWSE}
       => sel_ctrl >= 0 /\ sel_ctrl < num_controllers

\* C33: in every state the wizard is in DETECT exactly when no controller is
\* selected (sel_ctrl = -1); as long as main is in its loop, in MAPPING, REVIEW
\* and BROWSE the selected index is an index of the current registry.
C33_SelectionInvariant ==
  /\ state = STATE_DETECT <=> sel_ctrl = -1
  /\ (pc # "exit" /\ state \in {STATE_MAPPING, STATE_REVIEW, STATE_BROWSE})
       => sel_ctrl >= 0 /\ sel_ctrl < num_controllers

\* C33 witness: THEJOYSTICK was plugged in after the start, a rescan put it
\* behind the gamepad, and its button selected it: the wizard is in MAPPING
\* with the second entry of a registry of two selected
C33_Witness ==
  /\ pc # "exit"
  /\ state = STATE_MAPPING
  /\ num_controllers = 2
  /\ sel_ctrl = 1
  /\ NodeOf(sel_ctrl) = JoyNode

\* channel i holds a capture result
Bound(i) == mappings[i].mapped_type # MAP_NONE

\* C34: binding shape.  In MAPPING with redo_single clear the current channel c
\* is in 0..9, channels 0..c-1 are bound and channels c+1..9 are unset; in
\* MAPPING with redo_single set every channel but the current one is bound.  The
\* current channel is unset whenever update_mapping is entered; it is bound only
\* inside update_mapping, between the capture and the end of the settle delay.
\* In REVIEW and BROWSE all 10 channels are bound, and no line written to a file
\* has an empty channel code.
C34_BindingShape ==
  /\ state = STATE_MAPPING =>
        /\ cur_map \in 0..(NUM_MAPPINGS - 1)
        /\ Bound(cur_map) <=> pc = "settle"
        /\ \A i \in 0..(NUM_MAPPINGS - 1) :
             i # cur_map => (Bound(i) <=> (redo_single >= 0 \/ i < cur_map))
  /\ state \in {STATE_REVIEW, STATE_BROWSE} => \A i \in 0..(NUM_MAPPINGS - 1) : Bound(i)
  /\ \A f \in files : \A i \in 0..(NUM_MAPPINGS - 1) : CodeOfChannel(f.content, i) # <<>>

\* C34 witness: channel 4 is being redone: the wizard waits in MAPPING for its
\* capture with the nine other channels bound
C34_Witness ==
  /\ state = STATE_MAPPING
  /\ pc = "loop"
  /\ redo_single = 4
  /\ cur_map = 4
  /\ ~Bound(4)
  /\ \A i \in 0..(NUM_MAPPINGS - 1) : i # 4 => Bound(i)

\* C35: redo_single is -1 or a channel index; it is a channel index only while
\* the wizard is in MAPPING, and then it is the current channel; in DETECT,
\* REVIEW, BROWSE and EXIT it is -1.
C35_RedoFlag ==
  /\ redo_single \in -1..(NUM_MAPPINGS - 1)
  /\ redo_single >= 0 => state = STATE_MAPPING /\ redo_single = cur_map
  /\ state \in {STATE_DETECT, STATE_REVIEW, STATE_BROWSE, STATE_EXIT} => redo_single = -1

\* C35 witness: the redo of the last channel has been captured and settled; the
\* wizard is back in REVIEW with the flag clear and the channel index unmoved
C35_Witness ==
  /\ state = STATE_REVIEW
  /\ last_poll.from = STATE_MAPPING
  /\ caplog = <<>>
  /\ cur_map = NUM_MAPPINGS - 1
  /\ redo_single = -1
  /\ Bound(NUM_MAPPINGS - 1)

\* the changes of app.state the handlers make
Transitions ==
  {<<STATE_DETECT, STATE_MAPPING>>, <<STATE_MAPPING, STATE_REVIEW>>,
   <<STATE_REVIEW, STATE_MAPPING>>, <<STATE_REVIEW, STATE_BROWSE>>,
   <<STATE_REVIEW, STATE_DETECT>>, <<STATE_REVIEW, STATE_EXIT>>,
   <<STATE_BROWSE, STATE_REVIEW>>}

\* C36: every step that changes the wizard state makes one of the seven changes
\* DETECT->MAPPING, MAPPING->REVIEW, REVIEW->MAPPING, REVIEW->BROWSE,
\* REVIEW->DETECT, REVIEW->EXIT, BROWSE->REVIEW; a step that leaves MAPPING is
\* the end of update_mapping after a capture that bound the current channel;
\* and from state EXIT on the state stays EXIT, no handler changes the wizard's
\* data or writes a file, and no queued event is read.
C36_TransitionRelation ==
  [][/\ state' # state => <<state, state'>> \in Transitions
     /\ (state = STATE_MAPPING /\ state' # STATE_MAPPING)
           => pc = "settle" /\ mappings[cur_map].mapped_type # MAP_NONE
     /\ state = STATE_EXIT
           => /\ state' = STATE_EXIT
              /\ UNCHANGED <<sel_ctrl, thec64_nav_idx, mappings, cur_map, redo_single, review_sel,
                             save_path, mapping_str, browser, files, queue, kbd>>
    ]_vars

\* C36 witness: Quit was confirmed in REVIEW, the state became EXIT and main has
\* left its loop without a signal
C36_Witness ==
  /\ state = STATE_EXIT
  /\ pc = "exit"
  /\ ~g_quit
  /\ last_poll.from = STATE_REVIEW

\* C37 as stated: when update_mapping enters REVIEW, what is still unread on
\* the navigator's handle and on the keyboard's (all of it input made in DETECT
\* or MAPPING) causes no action in REVIEW: update_review polling right after the
\* entry, before any new input, takes no action and leaves the cursor alone.
C37_AsStated ==
  [][(state = STATE_MAPPING /\ state' = STATE_REVIEW) =>
       LET navq == IF thec64_nav_idx' >= 0 THEN queue'[controllers'[thec64_nav_idx' + 1]] ELSE <<>>
           n == read_nav_input(Controller[controllers'[sel_ctrl' + 1]].caps, mappings',
                               queue'[controllers'[sel_ctrl' + 1]], navq)
           d == ReviewDispatch(n, read_keyboard(kbd').key, review_sel')
       IN d.act = "none" /\ d.sel = review_sel'
    ]_vars

\* C38 as stated: whenever the wizard is in REVIEW with a save path recorded
\* (and main is in its loop, so that the review screen is rendered), the file
\* of that path holds the line build_mapping_string gives for the selected
\* controller and the current bindings.
C38_AsStated ==
  (pc # "exit" /\ state = STATE_REVIEW /\ save_path # <<>>) =>
    \E f \in files :
      /\ f.path = save_path
      /\ f.content = build_mapping_string(Controller[NodeOf(sel_ctrl)], mappings) \o <<"\n">>

\* the poll recorded in p read a confirm: the fire button of either controller,
\* Enter or Space
PollConfirm(p) == p.n.btn_a \/ p.key = KEY_ENTER \/ p.key = KEY_SPACE

\* the poll recorded in p read a right signal
PollRight(p) == p.key = KEY_RIGHT \/ p.n.dx > 0

C40_AsStated ==
  res.fn = "lookups" =>
    \A l \in res.val.capture \cup res.val.nav : l[2] >= 0 /\ l[2] < TableLen(l[1])

====
